---------------------------- MODULE Spec2Model ----------------------------
(***************************************************************************)
(* A model of the PMTK driver of blong/ada_gps: the frame codec            *)
(* (cmd/mod.rs, cmd/serialize.rs, cmd/parse.rs) and the raw command        *)
(* reader/writer of Gps (lib.rs).  Bytes are their ASCII codes.            *)
(***************************************************************************)
EXTENDS Integers, Sequences, FiniteSets, TLC

VARIABLES
    c_pc,        \* codec driver: "init", "serialized", "damaged", "parsed", "checksum", "ascii"
    c_name,      \* serialize's argument `name`
    c_fields,    \* serialize's argument `fields`
    c_wire,      \* the bytes handed to parse (serialize's `out`, possibly edited)
    c_edited,    \* whether c_wire was edited after serialize
    c_res,       \* parse's return value
    c_ck,        \* the u8 inside a Checksum
    c_ascii      \* Checksum::to_ascii of c_ck

codecVars == <<c_pc, c_name, c_fields, c_wire, c_edited, c_res, c_ck, c_ascii>>

VARIABLES
    dev_frame,   \* the frame the device sends after its other bytes
    dev_pos,     \* how many bytes of dev_frame the device has sent
    junk,        \* the other bytes the device has sent, in order
    ring,        \* rx: the committed, unread bytes of the inbound ring
    op,          \* the Gps function called, with its arguments
    r_pc,        \* "idle", "reading" (in read_cmd_raw's 'outer loop), "done"
    cmd,         \* read_cmd_raw's local `cmd`
    last_is_carriage_return,
    delayed,     \* read_cmd_raw's local `delayed`
    r_res,       \* what the called function returned
    seen,        \* the bytes this call took from the ring, in order
    slept,       \* microseconds the delay source has slept in this call
    empty_polls  \* how many rx.read() calls of this call found nothing

readVars == <<dev_frame, dev_pos, junk, ring, op, r_pc, cmd,
              last_is_carriage_return, delayed, r_res, seen, slept,
              empty_polls>>

VARIABLES
    w_pc,        \* "idle", "writing" (in write_cmd_raw's byte loop), "done"
    w_cmd,       \* write_cmd_raw's local `cmd`, the serialized frame
    w_idx,       \* how many bytes of w_cmd the transport has accepted
    w_delayed,   \* write_cmd_raw's local `delayed`
    w_res,       \* what write_cmd_raw returned
    tx_out,      \* the bytes the transport accepted
    w_slept,     \* microseconds the delay source has slept in this call
    w_byte_slept \* the part of w_slept spent waiting for the current byte

writeVars == <<w_pc, w_cmd, w_idx, w_delayed, w_res, tx_out, w_slept,
               w_byte_slept>>

VARIABLES
    already_disabled_nmea_output, \* the argument given to Gps::new
    disabled_nmea_output,  \* Gps::disabled_nmea_output
    g_call,      \* the public function called, with its arguments
    g_pc,        \* where the call is: "idle", "write", "read",
                 \* "delay", "rb_attempt", "boot", "boot_read", "flush",
                 \* "rb_delay", "done"
    phase,       \* whose closure with_retries runs: "nmea" (PMTK314),
                 \* "cmd" (the command), "ready" (check_ready), or "none"
    tries,       \* with_retries' local `tries` (the innermost loop)
    max_tries,   \* with_retries' argument (the innermost loop)
    rb_tries,    \* `tries` of send_reboot_cmd's with_retries
    seen_boot_sys_msg, seen_mtkgps, read_errors, read_spurious,
                 \* wait_for_boot's locals
    g_res,       \* what the public function returned
    op_res,      \* what the closure's last run returned
    tx_frame,    \* the last frame handed to write_cmd_raw
    tx_count,    \* write_cmd_raw calls of the innermost with_retries
    rb_tx_count, \* write_cmd_raw calls for the reboot frame in this call
    retry_slept, \* microseconds the innermost with_retries has slept
    rb_steps,    \* the steps the current reboot attempt has completed
    only_retryable, \* whether every error the innermost with_retries has
                 \* seen is Protocol, Parse, ReadTimeout or WriteTimeout
    dev_pending, \* the frames the device is about to send
    locus_stage, \* which frame read_logs reads: "start", "data", "end",
                 \* or "none" outside its reads
    locus_n,     \* read_logs' loop counter `n`
    locus_packet_count,   \* read_logs' local `packet_count`
    point_count_estimate, \* read_logs' local
    on_point_calls, \* the arguments of the on_point calls of this call
    frame_points,   \* on_point calls made for the last data frame
    lox_tx_count,   \* write_cmd_raw calls for PMTK622 in this call
    lox_frames,     \* what read_cmd_raw has returned after that write, in
                    \* order
    ring_at_write   \* history: the bytes that were readable when the
                    \* closure of with_retries wrote its frame, while its
                    \* read runs

logsVars == <<locus_stage, locus_n, locus_packet_count, point_count_estimate,
              on_point_calls, frame_points, lox_tx_count, lox_frames>>

ackVars == <<ring_at_write>>

gpsVars == <<logsVars, ackVars, already_disabled_nmea_output, only_retryable,
             disabled_nmea_output, g_call, g_pc, phase, tries, max_tries,
             rb_tries, seen_boot_sys_msg,
             seen_mtkgps, read_errors, read_spurious, g_res, op_res,
             tx_frame, tx_count, rb_tx_count, retry_slept, rb_steps,
             dev_pending>>

VARIABLES
    p_fn,        \* the function of the decoding code that is called
    p_in,        \* its argument
    p_out        \* what it returned

fnVars == <<p_fn, p_in, p_out>>

nonCodecVars == <<readVars, writeVars, gpsVars, fnVars>>
nonReadVars == <<codecVars, writeVars, gpsVars, fnVars>>
nonWriteVars == <<codecVars, readVars, gpsVars, fnVars>>
nonFnVars == <<codecVars, readVars, writeVars, gpsVars>>

vars == <<codecVars, readVars, writeVars, gpsVars, fnVars>>

-----------------------------------------------------------------------------
(* ASCII codes of the bytes the code names. *)

DOLLAR == 36
COMMA == 44
STAR == 42
CR == 13
LF == 10
ZERO == 48

(* Bounds of the codec inputs. *)
MaxNameLen == 2
MaxFields == 2
MaxFieldLen == 1

SeqsUpTo(S, n) == UNION {[1..k -> S] : k \in 0..n}

\* Names and fields of the round trip: 'A', 'B', '$' in names (A xor B = 03
\* needs the zero pad), '0' and '\r' in fields.
CodecNames == SeqsUpTo({65, 66, DOLLAR}, MaxNameLen) \ {<<>>}
CodecFieldLists == SeqsUpTo(SeqsUpTo({ZERO, CR}, MaxFieldLen), MaxFields)

\* Frames that are damaged before parsing: names of 'A', fields of '0'.
DamagedNames == SeqsUpTo({65}, MaxNameLen) \ {<<>>}
DamagedFieldLists == SeqsUpTo(SeqsUpTo({ZERO}, MaxFieldLen), MaxFields)

\* Bytes used to damage a frame: the delimiters, '+', hex digits of both
\* cases ('0', 'F', 'f') and a non-hex letter ('z').
EditBytes == {DOLLAR, COMMA, STAR, CR, LF, 43, ZERO, 70, 102, 122}

-----------------------------------------------------------------------------
(* u8 arithmetic *)

\* Bit k of a ^ b, in its place.
XorBit(a, b, k) == (((a \div (2 ^ k)) + (b \div (2 ^ k))) % 2) * (2 ^ k)

\* a ^ b for a and b below 256.
Xor8(a, b) ==
    ((XorBit(a, b, 0) + XorBit(a, b, 1)) + (XorBit(a, b, 2) + XorBit(a, b, 3)))
    + ((XorBit(a, b, 4) + XorBit(a, b, 5))
       + (XorBit(a, b, 6) + XorBit(a, b, 7)))

\* a ^ b, byte by byte.
RECURSIVE Xor(_, _)
Xor(a, b) ==
    IF a < 256 /\ b < 256 THEN Xor8(a, b)
    ELSE Xor8(a % 256, b % 256) + 256 * Xor(a \div 256, b \div 256)

-----------------------------------------------------------------------------
(* cmd/mod.rs: Checksum *)

\* lexical_core's digit table for radix 16: 0-9, then upper-case A-F.
digit_to_char(d) == IF d < 10 THEN ZERO + d ELSE 55 + d

\* lexical_core::write_with_options::<u8, hexadecimal>: no leading zeros.
lexical_write_hex(v) ==
    IF v < 16 THEN <<digit_to_char(v)>>
    ELSE <<digit_to_char(v \div 16), digit_to_char(v % 16)>>

\* lexical_core's char_to_digit for radix 16: both cases; -1 is "not a digit".
char_to_digit(c) ==
    IF c >= 48 /\ c <= 57 THEN c - 48
    ELSE IF c >= 65 /\ c <= 70 THEN c - 55
    ELSE IF c >= 97 /\ c <= 102 THEN c - 87
    ELSE -1

\* lexical_core::parse_with_options::<u8, hexadecimal> on two bytes: an
\* optional leading '+', then digits only; -1 is Err.
lexical_parse_hex(ascii) ==
    LET d1 == char_to_digit(ascii[1])
        d2 == char_to_digit(ascii[2])
    IN  IF ascii[1] = 43
        THEN d2
        ELSE IF d1 < 0 \/ d2 < 0 THEN -1 ELSE 16 * d1 + d2

Checksum_parse(ascii) == lexical_parse_hex(ascii)

\* s[lo] ^ ... ^ s[hi], 0 for no byte; ^ is associative, and halving the
\* range keeps the evaluation shallow.
RECURSIVE XorRange(_, _, _)
XorRange(s, lo, hi) ==
    IF lo > hi THEN 0
    ELSE IF lo = hi THEN s[lo]
    ELSE Xor(XorRange(s, lo, (lo + hi) \div 2),
             XorRange(s, (lo + hi) \div 2 + 1, hi))

\* `num ^= char` for the chars of line from position i on.
compute_for_from(line, i, num) == Xor(num, XorRange(line, i, Len(line)))

compute_for(line) == compute_for_from(line, 1, 0)

to_ascii_nopad(v) == lexical_write_hex(v)

to_ascii(v) ==
    LET out == lexical_write_hex(v)
    IN  IF Len(out) = 1 THEN <<ZERO, out[1]>> ELSE <<out[1], out[2]>>

-----------------------------------------------------------------------------
(* cmd/serialize.rs *)

\* What the loop pushes for the fields lo..hi: ',' and the field, for each
\* in turn (the range is halved to keep the evaluation shallow).
RECURSIVE pushed_fields(_, _, _)
pushed_fields(fields, lo, hi) ==
    IF lo > hi THEN <<>>
    ELSE IF lo = hi THEN <<COMMA>> \o fields[lo]
    ELSE pushed_fields(fields, lo, (lo + hi) \div 2)
         \o pushed_fields(fields, (lo + hi) \div 2 + 1, hi)

\* The loop from field k on, started with out.
push_fields(out, fields, k) == out \o pushed_fields(fields, k, Len(fields))

serialize_star_in_line(name, fields) ==
    LET body == push_fields(<<DOLLAR>> \o name, fields, 1)
        out == Append(body, STAR)
        line == SubSeq(out, 2, Len(out))
        checksum == compute_for(line)
    IN  out \o to_ascii(checksum) \o <<CR, LF>>

serialize(name, fields) ==
    LET body == push_fields(<<DOLLAR>> \o name, fields, 1)
        out == Append(body, STAR)
        line == SubSeq(out, 2, Len(out) - 1)
        checksum == compute_for(line)
    IN  out \o to_ascii(checksum) \o <<CR, LF>>

-----------------------------------------------------------------------------
(* cmd/parse.rs; parse's argument `raw` is called `raw` here *)

ParseOk(name, fields) == [tag |-> "Ok", name |-> name, fields |-> fields]
ParseErr(e) == [tag |-> "Err", err |-> e]
NoResult == [tag |-> "None"]

\* The name loop: the position of the ',' or '*' ending a non-empty name,
\* 0 for Err(ExpectedName).
RECURSIVE parse_name_end(_, _)
parse_name_end(raw, i) ==
    IF i <= Len(raw) /\ raw[i] \in {COMMA, STAR}
    THEN (IF i = 2 THEN 0 ELSE i)
    ELSE IF i > Len(raw) THEN 0
    ELSE parse_name_end(raw, i + 1)

\* Where `raw.peek() != Some('*')` ends the loop started at i: the first
\* '*' from i on, 0 when there is none.
first_star(raw, i) ==
    LET stars == {j \in i..Len(raw) : raw[j] = STAR}
    IN  IF stars = {} THEN 0
        ELSE CHOOSE j \in stars : \A k \in stars : j <= k

\* The fields loop from position i: <<position of '*', fields>>, position 0
\* for Err(ExpectedField).  The loop takes the bytes up to the first '*' one
\* by one, opens a field at each ',' and pushes any other byte on the field
\* opened last: each ',' leaves a field of the bytes up to the next ',' (or
\* the end of the loop), and the bytes before the first ',' go to the last
\* of the fields the loop started with.
parse_fields(raw, i, fields) ==
    LET star == first_star(raw, i)
        end == IF star = 0 THEN Len(raw) + 1 ELSE star
        commas == {j \in i..(end - 1) : raw[j] = COMMA}
        comma(k) ==
            CHOOSE j \in commas : Cardinality({m \in commas : m < j}) = k - 1
        close(j) ==
            LET later == {m \in commas : m > j}
            IN  IF later = {} THEN end
                ELSE CHOOSE m \in later : \A n \in later : m <= n
        head == SubSeq(raw, i, close(i - 1) - 1)
        opened == [k \in 1..Cardinality(commas) |->
                      SubSeq(raw, comma(k) + 1, close(comma(k)) - 1)]
    IN  <<star,
          (IF head = <<>> THEN fields
           ELSE [fields EXCEPT ![Len(fields)] = @ \o head]) \o opened>>

parse_tail_no_end(raw, name, fields, star) ==
    IF Len(raw) < star + 2 THEN ParseErr("ExpectedChecksum")
    ELSE LET checksum == Checksum_parse(<<raw[star + 1], raw[star + 2]>>)
         IN  IF checksum < 0 THEN ParseErr("ChecksumParse")
             ELSE IF Len(raw) < star + 3 \/ raw[star + 3] # CR
                  THEN ParseErr("ExpectedSuffix")
             ELSE IF Len(raw) < star + 4 \/ raw[star + 4] # LF
                  THEN ParseErr("ExpectedSuffix")
             ELSE IF checksum # compute_for(SubSeq(raw, 2, star - 1))
                  THEN ParseErr("WrongChecksum")
             ELSE ParseOk(name, fields)

parse_tail(raw, name, fields, star) ==
    IF Len(raw) < star + 2 THEN ParseErr("ExpectedChecksum")
    ELSE LET checksum == Checksum_parse(<<raw[star + 1], raw[star + 2]>>)
         IN  IF checksum < 0 THEN ParseErr("ChecksumParse")
             ELSE IF Len(raw) < star + 3 \/ raw[star + 3] # CR
                  THEN ParseErr("ExpectedSuffix")
             ELSE IF Len(raw) < star + 4 \/ raw[star + 4] # LF
                  THEN ParseErr("ExpectedSuffix")
             ELSE IF Len(raw) > star + 4 THEN ParseErr("ExpectedEnd")
             ELSE IF checksum # compute_for(SubSeq(raw, 2, Len(raw) - 5))
                  THEN ParseErr("WrongChecksum")
             ELSE ParseOk(name, fields)

parse(raw) ==
    IF Len(raw) = 0 \/ raw[1] # DOLLAR THEN ParseErr("ExpectedPrefix")
    ELSE LET ne == parse_name_end(raw, 2)
         IN  IF ne = 0 THEN ParseErr("ExpectedName")
             ELSE LET name == SubSeq(raw, 2, ne - 1)
                      pf == parse_fields(raw, ne, <<>>)
                  IN  IF pf[1] = 0 THEN ParseErr("ExpectedField")
                      ELSE parse_tail(raw, name, pf[2], pf[1])

-----------------------------------------------------------------------------
(* The codec driver: callers of serialize, parse and Checksum::to_ascii. *)

ReadUnused ==
    /\ dev_frame = <<>>
    /\ dev_pos = 0
    /\ junk = <<>>
    /\ ring = <<>>
    /\ op = [fn |-> "none"]
    /\ r_pc = "idle"
    /\ cmd = <<>>
    /\ last_is_carriage_return = FALSE
    /\ delayed = 0
    /\ r_res = NoResult
    /\ seen = <<>>
    /\ slept = 0
    /\ empty_polls = 0

WriteUnused ==
    /\ w_pc = "idle"
    /\ w_cmd = <<>>
    /\ w_idx = 0
    /\ w_delayed = 0
    /\ w_res = NoResult
    /\ tx_out = <<>>
    /\ w_slept = 0
    /\ w_byte_slept = 0

\* read_logs is not running.
LogsIdle ==
    /\ locus_stage = "none"
    /\ locus_n = 0
    /\ locus_packet_count = 0
    /\ point_count_estimate = 0
    /\ on_point_calls = <<>>
    /\ frame_points = 0
    /\ lox_tx_count = 0
    /\ lox_frames = <<>>

GpsUnused ==
    /\ ring_at_write = <<>>
    /\ already_disabled_nmea_output = FALSE
    /\ only_retryable = TRUE
    /\ disabled_nmea_output = FALSE
    /\ g_call = [fn |-> "none"]
    /\ g_pc = "idle"
    /\ phase = "none"
    /\ tries = 0
    /\ max_tries = 0
    /\ rb_tries = 0
    /\ seen_boot_sys_msg = FALSE
    /\ seen_mtkgps = FALSE
    /\ read_errors = 0
    /\ read_spurious = 0
    /\ g_res = NoResult
    /\ op_res = NoResult
    /\ tx_frame = <<>>
    /\ tx_count = 0
    /\ rb_tx_count = 0
    /\ retry_slept = 0
    /\ rb_steps = <<>>
    /\ dev_pending = <<>>
    /\ LogsIdle

FnUnused ==
    /\ p_fn = "none"
    /\ p_in = <<>>
    /\ p_out = [tag |-> "None"]

InitCodecWith(names, fieldLists) ==
    /\ ReadUnused
    /\ WriteUnused
    /\ GpsUnused
    /\ FnUnused
    /\ c_pc = "init"
    /\ c_name \in names
    /\ c_fields \in fieldLists
    /\ c_wire = <<>>
    /\ c_edited = FALSE
    /\ c_res = NoResult
    /\ c_ck = 0
    /\ c_ascii = <<>>

InitChecksum ==
    /\ GpsUnused
    /\ FnUnused
    /\ ReadUnused
    /\ WriteUnused
    /\ c_pc = "checksum"
    /\ c_name = <<65>>
    /\ c_fields = <<>>
    /\ c_wire = <<>>
    /\ c_edited = FALSE
    /\ c_res = NoResult
    /\ c_ck \in 0..255
    /\ c_ascii = <<>>

DoSerialize ==
    /\ c_pc = "init"
    /\ c_wire' = serialize(c_name, c_fields)
    /\ c_pc' = "serialized"
    /\ UNCHANGED <<nonCodecVars, c_name, c_fields, c_edited, c_res, c_ck, c_ascii>>

\* A transport fault: the frame is cut short, or one byte is replaced or
\* inserted.
Damage ==
    /\ c_pc = "serialized"
    /\ \/ \E k \in 0..(Len(c_wire) - 1) : c_wire' = SubSeq(c_wire, 1, k)
       \/ \E i \in 1..Len(c_wire), b \in EditBytes :
              /\ c_wire[i] # b
              /\ c_wire' = [c_wire EXCEPT ![i] = b]
       \/ \E i \in 0..Len(c_wire), b \in EditBytes :
              c_wire' = SubSeq(c_wire, 1, i) \o <<b>>
                          \o SubSeq(c_wire, i + 1, Len(c_wire))
    /\ c_edited' = TRUE
    /\ c_pc' = "damaged"
    /\ UNCHANGED <<nonCodecVars, c_name, c_fields, c_res, c_ck, c_ascii>>

DoParse ==
    /\ c_pc \in {"serialized", "damaged"}
    /\ c_res' = parse(c_wire)
    /\ c_pc' = "parsed"
    /\ UNCHANGED <<nonCodecVars, c_name, c_fields, c_wire, c_edited, c_ck, c_ascii>>

DoToAscii ==
    /\ c_pc = "checksum"
    /\ c_ascii' = to_ascii(c_ck)
    /\ c_pc' = "ascii"
    /\ UNCHANGED <<nonCodecVars, c_name, c_fields, c_wire, c_edited, c_res, c_ck>>

InitCodec == InitCodecWith(CodecNames, CodecFieldLists) \/ InitChecksum
NextCodec == DoSerialize \/ DoParse \/ DoToAscii
SpecCodec == InitCodec /\ [][NextCodec]_vars

InitParse == InitCodecWith(DamagedNames, DamagedFieldLists)
NextParse == DoSerialize \/ Damage \/ DoParse
SpecParse == InitParse /\ [][NextParse]_vars

-----------------------------------------------------------------------------
(* lib.rs: Gps::read_cmd_raw and the functions that return through it. *)

\* lib.rs has 500_000; the model counts the same 1 us sleeps against a
\* small budget.
MAX_READ_CMD_US == 2

\* How many bytes the device sends besides its frame.
MaxJunk == 3

\* '$', '\r', '\n' and 'x'.
JunkBytes == {DOLLAR, CR, LF, 120}

\* The frames the device sends: "$A*41\r\n" and "$A,0*5D\r\n".
ReaderCmds == {[name |-> <<65>>, fields |-> <<>>],
               [name |-> <<65>>, fields |-> <<<<ZERO>>>>]}
ReaderFrames == {serialize(c.name, c.fields) : c \in ReaderCmds}

GErr(e) == [tag |-> "Err", err |-> e]
GErrParse(e) == [tag |-> "Err", err |-> "Parse", cause |-> e]

\* .map_err(Error::Parse)
map_err_Parse(r) == IF r.tag = "Ok" THEN r ELSE GErrParse(r.err)

timed_out_ge(d) == d >= MAX_READ_CMD_US

timed_out(d) == d > MAX_READ_CMD_US

consume_byte_resync_drop(st, byte) ==
    IF byte = DOLLAR /\ st.cmd # <<>>
    THEN [st EXCEPT !.cmd = <<>>]
    ELSE IF byte = LF /\ st.last
    THEN [st EXCEPT !.cmd = Append(st.cmd, byte), !.closed = TRUE]
    ELSE IF byte = CR
    THEN [st EXCEPT !.cmd = Append(st.cmd, byte), !.last = TRUE]
    ELSE [st EXCEPT !.cmd = Append(st.cmd, byte), !.last = FALSE]

consume_byte_no_clear(st, byte) ==
    IF byte = DOLLAR /\ st.cmd # <<>>
    THEN [st EXCEPT !.cmd = Append(st.cmd, byte)]
    ELSE IF byte = LF /\ st.last
    THEN [st EXCEPT !.cmd = Append(st.cmd, byte), !.closed = TRUE]
    ELSE IF byte = CR
    THEN [st EXCEPT !.cmd = Append(st.cmd, byte), !.last = TRUE]
    ELSE [st EXCEPT !.cmd = Append(st.cmd, byte), !.last = FALSE]

\* One pass of the body of `for &byte in grant.buf()`.
consume_byte(st, byte) ==
    IF byte = DOLLAR /\ st.cmd # <<>>
    THEN [st EXCEPT !.cmd = <<byte>>]
    ELSE IF byte = LF /\ st.last
    THEN [st EXCEPT !.cmd = Append(st.cmd, byte), !.closed = TRUE]
    ELSE IF byte = CR
    THEN [st EXCEPT !.cmd = Append(st.cmd, byte), !.last = TRUE]
    ELSE [st EXCEPT !.cmd = Append(st.cmd, byte), !.last = FALSE]

\* The passes of the for loop on buf[lo..hi], in their order, up to the
\* byte that closes the frame; used is the position of the last byte that
\* had its pass.  The passes on the first half of the range come before
\* those on the second half, which start from the state the first half
\* left: halving the range keeps the evaluation shallow.
RECURSIVE consume_bytes(_, _, _, _)
consume_bytes(buf, lo, hi, st) ==
    IF st.closed THEN st
    ELSE IF lo = hi THEN [consume_byte(st, buf[lo]) EXCEPT !.used = lo]
    ELSE consume_bytes(buf, (lo + hi) \div 2 + 1, hi,
             consume_bytes(buf, lo, (lo + hi) \div 2, st))

\* The for loop over a grant, from position i: stops at the byte that
\* closes the frame.
consume_grant(buf, i, st) ==
    IF i > Len(buf) \/ st.closed THEN [st EXCEPT !.used = i - 1]
    ELSE consume_bytes(buf, i, Len(buf), st)

\* read_reply_raw after its read_cmd_raw call returned r.
read_reply_raw_ret_le(name, min_fields, r) ==
    IF r.tag = "Err" THEN r
    ELSE IF name # r.name THEN GErr("Protocol")
    ELSE IF Len(r.fields) <= min_fields THEN GErr("Protocol")
    ELSE [tag |-> "Ok", fields |-> r.fields]

read_reply_raw_ret_exact(name, min_fields, r) ==
    IF r.tag = "Err" THEN r
    ELSE IF name # r.name THEN GErr("Protocol")
    ELSE IF Len(r.fields) # min_fields THEN GErr("Protocol")
    ELSE [tag |-> "Ok", fields |-> r.fields]

read_reply_raw_ret(name, min_fields, r) ==
    IF r.tag = "Err" THEN r
    ELSE IF name # r.name THEN GErr("Protocol")
    ELSE IF Len(r.fields) < min_fields THEN GErr("Protocol")
    ELSE [tag |-> "Ok", fields |-> r.fields]

PMTK001 == <<80, 77, 84, 75, 48, 48, 49>>

read_pmtk_ack_raw_ret_status_first(for_num, r) ==
    IF r.tag = "Err" THEN r
    ELSE LET got_for == r.fields[1]
             got_status == r.fields[2]
         IN  IF Len(got_status) # 1 THEN GErr("Protocol")
             ELSE IF got_status[1] = 48 THEN GErr("GpsSaysInvalidCommand")
             ELSE IF got_status[1] = 49 THEN GErr("GpsSaysUnsupportedCommand")
             ELSE IF got_status[1] = 50 THEN GErr("GpsSaysActionFailed")
             ELSE IF for_num # got_for THEN GErr("Protocol")
             ELSE IF got_status[1] = 51 THEN [tag |-> "Ok"]
             ELSE GErr("Protocol")

\* read_pmtk_ack_raw after its read_reply_raw(b"PMTK001", 2) call returned r.
read_pmtk_ack_raw_ret(for_num, r) ==
    IF r.tag = "Err" THEN r
    ELSE LET got_for == r.fields[1]
             got_status == r.fields[2]
         IN  IF Len(got_status) # 1 THEN GErr("Protocol")
             ELSE IF for_num # got_for THEN GErr("Protocol")
             ELSE IF got_status[1] = 48 THEN GErr("GpsSaysInvalidCommand")
             ELSE IF got_status[1] = 49 THEN GErr("GpsSaysUnsupportedCommand")
             ELSE IF got_status[1] = 50 THEN GErr("GpsSaysActionFailed")
             ELSE IF got_status[1] = 51 THEN [tag |-> "Ok"]
             ELSE GErr("Protocol")

\* What the called function returns once read_cmd_raw returned r.
return_through(o, r) ==
    IF o.fn = "read_reply_raw"
    THEN read_reply_raw_ret(o.name, o.min_fields, r)
    ELSE IF o.fn = "read_pmtk_ack_raw"
    THEN read_pmtk_ack_raw_ret(o.for_num, read_reply_raw_ret(PMTK001, 2, r))
    ELSE r

CodecUnused ==
    /\ c_pc = "unused"
    /\ c_name = <<>>
    /\ c_fields = <<>>
    /\ c_wire = <<>>
    /\ c_edited = FALSE
    /\ c_res = NoResult
    /\ c_ck = 0
    /\ c_ascii = <<>>

InitReadWith(frames) ==
    /\ CodecUnused
    /\ WriteUnused
    /\ GpsUnused
    /\ FnUnused
    /\ dev_frame \in frames
    /\ dev_pos = 0
    /\ junk = <<>>
    /\ ring = <<>>
    /\ op = [fn |-> "none"]
    /\ r_pc = "idle"
    /\ cmd = <<>>
    /\ last_is_carriage_return = FALSE
    /\ delayed = 0
    /\ r_res = NoResult
    /\ seen = <<>>
    /\ slept = 0
    /\ empty_polls = 0

\* The device (through the UART interrupt) commits one byte that is not
\* part of its frame.
DevJunk ==
    /\ dev_pos = 0
    /\ Len(junk) < MaxJunk
    /\ \E b \in JunkBytes :
          /\ junk' = Append(junk, b)
          /\ ring' = Append(ring, b)
    /\ UNCHANGED <<nonReadVars, dev_frame, dev_pos, op, r_pc, cmd,
                   last_is_carriage_return, delayed, r_res, seen, slept,
                   empty_polls>>

\* The device commits the next k bytes of its frame.
DevFrame ==
    /\ dev_pos < Len(dev_frame)
    /\ \E k \in 1..(Len(dev_frame) - dev_pos) :
          /\ ring' = ring \o SubSeq(dev_frame, dev_pos + 1, dev_pos + k)
          /\ dev_pos' = dev_pos + k
    /\ UNCHANGED <<nonReadVars, dev_frame, junk, op, r_pc, cmd,
                   last_is_carriage_return, delayed, r_res, seen, slept,
                   empty_polls>>

\* Entry of read_cmd_raw (lines 570-572), called as o.
Call(o) ==
    /\ r_pc = "idle"
    /\ op' = o
    /\ r_pc' = "reading"
    /\ cmd' = <<>>
    /\ last_is_carriage_return' = FALSE
    /\ delayed' = 0
    /\ UNCHANGED <<nonReadVars, dev_frame, dev_pos, junk, ring, r_res, seen,
                   slept, empty_polls>>

CallReadCmdRaw == Call([fn |-> "read_cmd_raw"])

ReadTimeout_without_return ==
    /\ r_pc = "reading"
    /\ timed_out(delayed)
    /\ r_res' = return_through(op, GErr("ReadTimeout"))
    /\ UNCHANGED <<nonReadVars, dev_frame, dev_pos, junk, ring, op, cmd, r_pc,
                   last_is_carriage_return, delayed, seen, slept, empty_polls>>

\* 'outer, lines 575-578.
ReadTimeout ==
    /\ r_pc = "reading"
    /\ timed_out(delayed)
    /\ r_res' = return_through(op, GErr("ReadTimeout"))
    /\ r_pc' = "done"
    /\ UNCHANGED <<nonReadVars, dev_frame, dev_pos, junk, ring, op, cmd,
                   last_is_carriage_return, delayed, seen, slept, empty_polls>>

\* 'outer, lines 581-588: rx.read() fails, nothing is readable.
ReadEmptyPoll ==
    /\ r_pc = "reading"
    /\ ~timed_out(delayed)
    /\ ring = <<>>
    /\ slept' = slept + 1
    /\ delayed' = delayed + 1
    /\ empty_polls' = empty_polls + 1
    /\ UNCHANGED <<nonReadVars, dev_frame, dev_pos, junk, ring, op, r_pc, cmd,
                   last_is_carriage_return, r_res, seen>>

ReadGrantOf_releasing_grant(k) ==
    /\ r_pc = "reading"
    /\ ~timed_out(delayed)
    /\ ring # <<>>
    /\ LET st == consume_grant(SubSeq(ring, 1, k), 1,
                      [cmd |-> cmd, last |-> last_is_carriage_return,
                       closed |-> FALSE, used |-> 0])
       IN  /\ cmd' = st.cmd
           /\ last_is_carriage_return' = st.last
           /\ ring' = SubSeq(ring, k + 1, Len(ring))
           /\ seen' = seen \o SubSeq(ring, 1, st.used)
           /\ IF st.closed
              THEN /\ r_res' = return_through(op, map_err_Parse(parse(st.cmd)))
                   /\ r_pc' = "done"
              ELSE UNCHANGED <<r_res, r_pc>>
    /\ UNCHANGED <<nonReadVars, dev_frame, dev_pos, junk, op, delayed, slept,
                   empty_polls>>

\* 'outer, lines 581-612 and 620: rx.read() grants the first k readable
\* bytes, the for loop consumes them, and a closed frame is parsed and
\* returned.
ReadGrantOf(k) ==
    /\ r_pc = "reading"
    /\ ~timed_out(delayed)
    /\ ring # <<>>
    /\ LET st == consume_grant(SubSeq(ring, 1, k), 1,
                      [cmd |-> cmd, last |-> last_is_carriage_return,
                       closed |-> FALSE, used |-> 0])
       IN  /\ cmd' = st.cmd
           /\ last_is_carriage_return' = st.last
           /\ ring' = SubSeq(ring, st.used + 1, Len(ring))
           /\ seen' = seen \o SubSeq(ring, 1, st.used)
           /\ IF st.closed
              THEN /\ r_res' = return_through(op, map_err_Parse(parse(st.cmd)))
                   /\ r_pc' = "done"
              ELSE UNCHANGED <<r_res, r_pc>>
    /\ UNCHANGED <<nonReadVars, dev_frame, dev_pos, junk, op, delayed, slept,
                   empty_polls>>

\* The readable bytes wrap around the end of the ring: the grant is any
\* non-empty prefix of them.
ReadGrant == \E k \in 1..Len(ring) : ReadGrantOf(k)

\* The readable bytes are contiguous: the grant is all of them.
ReadGrantAll == ReadGrantOf(Len(ring))

InitRead == InitReadWith(ReaderFrames)
NextRead ==
    \/ DevJunk
    \/ DevFrame
    \/ CallReadCmdRaw
    \/ ReadTimeout
    \/ ReadEmptyPoll
    \/ ReadGrant
SpecRead == InitRead /\ [][NextRead]_vars

\* How many bytes the device commits before the driver reads them, at
\* most, and how long cmd gets by bytes that are not '$', at most.
MaxUnreadBytes == 2
MaxChatterCmd == 3

\* '$' and 'x': bytes that close no frame.
ChatterBytes == {DOLLAR, 120}

\* The device (through the UART interrupt) commits one more byte that is
\* neither '\r' nor '\n', for as long as it likes.
DevChatter ==
    /\ Len(ring) < MaxUnreadBytes
    /\ \E b \in ChatterBytes :
          /\ b # DOLLAR => Len(cmd) + Len(ring) < MaxChatterCmd
          /\ ring' = Append(ring, b)
    /\ UNCHANGED <<nonReadVars, dev_frame, dev_pos, junk, op, r_pc, cmd,
                   last_is_carriage_return, delayed, r_res, seen, slept,
                   empty_polls>>

\* The device commits the next byte of its frame.
DevFrameByte ==
    /\ Len(ring) < MaxUnreadBytes
    /\ dev_pos < Len(dev_frame)
    /\ ring' = Append(ring, dev_frame[dev_pos + 1])
    /\ dev_pos' = dev_pos + 1
    /\ UNCHANGED <<nonReadVars, dev_frame, junk, op, r_pc, cmd,
                   last_is_carriage_return, delayed, r_res, seen, slept,
                   empty_polls>>

\* ReadGrantOf without the record of the bytes consumed.
ReadGrantUnrecorded ==
    /\ r_pc = "reading"
    /\ ~timed_out(delayed)
    /\ ring # <<>>
    /\ LET st == consume_grant(ring, 1,
                      [cmd |-> cmd, last |-> last_is_carriage_return,
                       closed |-> FALSE, used |-> 0])
       IN  /\ cmd' = st.cmd
           /\ last_is_carriage_return' = st.last
           /\ ring' = SubSeq(ring, st.used + 1, Len(ring))
           /\ IF st.closed
              THEN /\ r_res' = return_through(op, map_err_Parse(parse(st.cmd)))
                   /\ r_pc' = "done"
              ELSE UNCHANGED <<r_res, r_pc>>
    /\ UNCHANGED <<nonReadVars, dev_frame, dev_pos, junk, op, delayed, slept,
                   empty_polls, seen>>

\* One turn of read_cmd_raw's loop 'outer.
ReadLoop == ReadTimeout \/ ReadEmptyPoll \/ ReadGrantUnrecorded

\* read_cmd_raw with a device that may go on committing bytes for ever.
\* The driver's loop is not held up: it is the only foreground task.
NextReadLive ==
    \/ DevChatter
    \/ DevFrameByte
    \/ CallReadCmdRaw
    \/ ReadTimeout
    \/ ReadEmptyPoll
    \/ ReadGrantUnrecorded
SpecReadLive == InitRead /\ [][NextReadLive]_vars /\ WF_vars(ReadLoop)

-----------------------------------------------------------------------------
(* lib.rs: Gps::read_reply_raw and Gps::read_pmtk_ack_raw, called on one
   frame from the device. *)

PMTK002 == <<80, 77, 84, 75, 48, 48, 50>>
N604 == <<54, 48, 52>>
N600 == <<54, 48, 48>>

\* Status fields: '0'..'4', the empty field and "33".
ReplyStatuses == {<<48>>, <<49>>, <<50>>, <<51>>, <<52>>, <<>>, <<51, 51>>}

\* The frames the device answers with: acks for 604 and 600 with every
\* status, acks with one, no and three fields, and frames of another name.
ReplyCmds ==
    {[name |-> PMTK001, fields |-> <<n, st>>] :
         n \in {N604, N600}, st \in ReplyStatuses}
    \cup {[name |-> PMTK001, fields |-> <<n>>] : n \in {N604, N600}}
    \cup {[name |-> PMTK001, fields |-> <<>>],
          [name |-> PMTK001, fields |-> <<N604, <<51>>, <<57>>>>],
          [name |-> PMTK002, fields |-> <<>>],
          [name |-> PMTK002, fields |-> <<N604, <<51>>>>]}

\* "$PMTK001,604,3*33\r\n": the checksum should be 32.
BadChecksumFrame ==
    LET f == serialize(PMTK001, <<N604, <<51>>>>)
    IN  [f EXCEPT ![Len(f) - 2] = 51]

ReplyFrames ==
    {serialize(c.name, c.fields) : c \in ReplyCmds} \cup {BadChecksumFrame}

\* What the device sends after its reply: "$A*41\r\n".
Trailer == serialize(<<65>>, <<>>)

\* The device commits the rest of its frame at once.
DevFrameWhole ==
    /\ dev_pos < Len(dev_frame)
    /\ ring' = ring \o SubSeq(dev_frame, dev_pos + 1, Len(dev_frame))
    /\ dev_pos' = Len(dev_frame)
    /\ UNCHANGED <<nonReadVars, dev_frame, junk, op, r_pc, cmd,
                   last_is_carriage_return, delayed, r_res, seen, slept,
                   empty_polls>>

\* The device commits another frame after its reply.
DevTrailer ==
    /\ dev_pos = Len(dev_frame)
    /\ junk = <<>>
    /\ junk' = Trailer
    /\ ring' = ring \o Trailer
    /\ UNCHANGED <<nonReadVars, dev_frame, dev_pos, op, r_pc, cmd,
                   last_is_carriage_return, delayed, r_res, seen, slept,
                   empty_polls>>

CallReadReplyRaw ==
    \E name \in {PMTK001, PMTK002}, min_fields \in 0..3 :
        Call([fn |-> "read_reply_raw", name |-> name,
              min_fields |-> min_fields])

CallReadPmtkAckRaw ==
    Call([fn |-> "read_pmtk_ack_raw", for_num |-> N604])

InitReply == InitReadWith(ReplyFrames)
NextReply ==
    \/ DevFrameWhole
    \/ DevTrailer
    \/ CallReadReplyRaw
    \/ CallReadPmtkAckRaw
    \/ ReadTimeout
    \/ ReadEmptyPoll
    \/ ReadGrantAll
SpecReply == InitReply /\ [][NextReply]_vars

\* The device commits its frame and, in the same burst, the first n bytes
\* of the frame that follows it.
DevBackToBack ==
    /\ dev_pos = 0
    /\ junk = <<>>
    /\ \E n \in 1..Len(Trailer) :
          /\ ring' = ring \o dev_frame \o SubSeq(Trailer, 1, n)
          /\ junk' = SubSeq(Trailer, 1, n)
    /\ dev_pos' = Len(dev_frame)
    /\ UNCHANGED <<nonReadVars, dev_frame, op, r_pc, cmd,
                   last_is_carriage_return, delayed, r_res, seen, slept,
                   empty_polls>>

\* The device commits the rest of the following frame.
DevTrailerRest ==
    /\ junk # <<>>
    /\ Len(junk) < Len(Trailer)
    /\ ring' = ring \o SubSeq(Trailer, Len(junk) + 1, Len(Trailer))
    /\ junk' = Trailer
    /\ UNCHANGED <<nonReadVars, dev_frame, dev_pos, op, r_pc, cmd,
                   last_is_carriage_return, delayed, r_res, seen, slept,
                   empty_polls>>

\* The caller, given what a closed frame made, calls read_cmd_raw again
\* (lines 570-572).
CallReadCmdRawAgain ==
    /\ r_pc = "done"
    /\ r_res # GErr("ReadTimeout")
    /\ op' = [fn |-> "read_cmd_raw"]
    /\ r_pc' = "reading"
    /\ cmd' = <<>>
    /\ last_is_carriage_return' = FALSE
    /\ delayed' = 0
    /\ UNCHANGED <<nonReadVars, dev_frame, dev_pos, junk, ring, r_res, seen,
                   slept, empty_polls>>

\* read_cmd_raw called twice on two frames that arrive back to back.
NextReadTwice ==
    \/ DevBackToBack
    \/ DevTrailerRest
    \/ CallReadCmdRaw
    \/ CallReadCmdRawAgain
    \/ ReadTimeout
    \/ ReadEmptyPoll
    \/ ReadGrantAll
SpecReadTwice == InitReply /\ [][NextReadTwice]_vars

-----------------------------------------------------------------------------
(* lib.rs: Gps::write_cmd_raw *)

\* lib.rs has 50_000; the model counts the same 1 us sleeps against a small
\* budget.
MAX_WRITE_CMD_US == 2

\* The commands written: A and A,0.
WriterCmds == ReaderCmds

write_timed_out(d) == d > MAX_WRITE_CMD_US

delayed_reset_per_byte(d) == 0

\* `delayed` when the for loop moves to the next byte: it is declared
\* before the loop (line 531) and keeps its value.
delayed_for_next_byte(d) == d

InitWrite ==
    /\ CodecUnused
    /\ ReadUnused
    /\ WriteUnused
    /\ GpsUnused
    /\ FnUnused

\* Entry of write_cmd_raw, lines 523-531.
CallWriteCmdRaw ==
    /\ w_pc = "idle"
    /\ \E c \in WriterCmds : w_cmd' = serialize(c.name, c.fields)
    /\ w_pc' = "writing"
    /\ w_delayed' = 0
    /\ UNCHANGED <<nonWriteVars, w_idx, w_res, tx_out, w_slept, w_byte_slept>>

\* 'byte, line 535: the transport accepts the byte.
WriteByteOk ==
    /\ w_pc = "writing"
    /\ tx_out' = Append(tx_out, w_cmd[w_idx + 1])
    /\ w_idx' = w_idx + 1
    /\ w_delayed' = delayed_for_next_byte(w_delayed)
    /\ w_byte_slept' = 0
    /\ IF w_idx + 1 = Len(w_cmd)
       THEN w_res' = [tag |-> "Ok"] /\ w_pc' = "done"
       ELSE UNCHANGED <<w_res, w_pc>>
    /\ UNCHANGED <<nonWriteVars, w_cmd, w_slept>>

\* 'byte, lines 536-543: WouldBlock with budget left.
WriteWouldBlockSleep ==
    /\ w_pc = "writing"
    /\ ~write_timed_out(w_delayed)
    /\ w_delayed' = w_delayed + 1
    /\ w_slept' = w_slept + 1
    /\ w_byte_slept' = w_byte_slept + 1
    /\ UNCHANGED <<nonWriteVars, w_pc, w_cmd, w_idx, w_res, tx_out>>

\* 'byte, lines 536-540: WouldBlock with the budget used up.
WriteWouldBlockTimeout ==
    /\ w_pc = "writing"
    /\ write_timed_out(w_delayed)
    /\ w_res' = GErr("WriteTimeout")
    /\ w_pc' = "done"
    /\ UNCHANGED <<nonWriteVars, w_cmd, w_idx, w_delayed, tx_out, w_slept,
                   w_byte_slept>>

\* 'byte, lines 544-546: any other transport error.
WriteTransmitError ==
    /\ w_pc = "writing"
    /\ w_res' = GErr("Transmit")
    /\ w_pc' = "done"
    /\ UNCHANGED <<nonWriteVars, w_cmd, w_idx, w_delayed, tx_out, w_slept,
                   w_byte_slept>>

NextWrite ==
    \/ CallWriteCmdRaw
    \/ WriteByteOk
    \/ WriteWouldBlockSleep
    \/ WriteWouldBlockTimeout
    \/ WriteTransmitError
SpecWrite == InitWrite /\ [][NextWrite]_vars

-----------------------------------------------------------------------------
(* lib.rs: the command functions of Gps: with_retries,
   send_mtk_cmd, send_mtk_cmd_for_reply, ensure_nmea_output_disabled,
   send_reboot_cmd, wait_for_boot and check_ready.  write_cmd_raw is one
   step with each of its three returns; read_cmd_raw runs as the reader
   above does. *)

DELAY_BEFORE_RETRY_US == 80000

\* lib.rs has 5, 20, 20, 50 and 1_000; the model counts the same events
\* against small limits.
MAX_CMD_TRIES == 2
MAX_CMD_TRIES_WITHOUT_NMEA_DISABLED == 3
MAX_READ_SPURIOUS_AFTER_BOOT_READY == 3
MAX_READ_ERRORS_ON_BOOT == 1
MAX_READ_SPURIOUS_BEFORE_BOOT == 2

\* How many whole frames the device has committed to the ring and not yet
\* seen read, at most.
MaxRingFrames == 1

PMTK == <<80, 77, 84, 75>>
N314 == <<51, 49, 52>>
N184 == <<49, 56, 52>>
N183 == <<49, 56, 51>>
LOG == <<76, 79, 71>>
PMTK605 == PMTK \o <<54, 48, 53>>
PMTK705 == PMTK \o <<55, 48, 53>>
PMTK010 == PMTK \o <<48, 49, 48>>
PMTK011 == PMTK \o <<48, 49, 49>>
PMTK101 == PMTK \o <<49, 48, 49>>
PMTK104 == PMTK \o <<49, 48, 52>>
CDACK == <<67, 68, 65, 67, 75>>
F001 == <<48, 48, 49>>
F002 == <<48, 48, 50>>
MTKGPS == <<77, 84, 75, 71, 80, 83>>

\* The 19 fields b"0" of PMTK_API_SET_NMEA_OUTPUT.
nmea_fields == [i \in 1..19 |-> <<ZERO>>]

\* lexical_core::write of a u32: its decimal digits, most significant
\* first, "0" for zero.
RECURSIVE u32_to_base10_ascii(_)
u32_to_base10_ascii(val) ==
    IF val < 10 THEN <<ZERO + val>>
    ELSE Append(u32_to_base10_ascii(val \div 10), ZERO + (val % 10))

\* The intervals configure_logger_interval is called with.
LoggerIntervals == {5, 10}

\* Lines 74-97: what each function hands to send_mtk_cmd.
configure_logger_interval(secs) ==
    [fn |-> "send_mtk_cmd", api |-> "configure_logger_interval",
     secs |-> secs, num |-> <<49, 56, 55>>,
     fields |-> <<<<49>>, u32_to_base10_ascii(secs)>>]

erase_logs ==
    [fn |-> "send_mtk_cmd", api |-> "erase_logs", secs |-> 0,
     num |-> N184, fields |-> <<<<49>>>>]

start_logging ==
    [fn |-> "send_mtk_cmd", api |-> "start_logging", secs |-> 0,
     num |-> <<49, 56, 53>>, fields |-> <<<<48>>>>]

stop_logging_as_start == [start_logging EXCEPT !.api = "stop_logging"]

stop_logging ==
    [fn |-> "send_mtk_cmd", api |-> "stop_logging", secs |-> 0,
     num |-> <<49, 56, 53>>, fields |-> <<<<49>>>>]

\* The public functions called: the four logger commands, the command of
\* logger_status, ensure_nmea_output_disabled and hot_restart.
GpsCalls ==
    {configure_logger_interval(secs) : secs \in LoggerIntervals} \cup
    {erase_logs, start_logging, stop_logging} \cup
    {[fn |-> "send_mtk_cmd_for_reply", num |-> N183, fields |-> <<>>,
      reply_num |-> LOG, reply_min_fields |-> 10],
     [fn |-> "ensure_nmea_output_disabled"],
     [fn |-> "send_reboot_cmd", cmd |-> PMTK101]}

\* The frame the closure of the running with_retries writes.
closure_frame(call, ph) ==
    IF ph = "nmea" THEN [name |-> PMTK \o N314, fields |-> nmea_fields]
    ELSE IF ph = "ready" THEN [name |-> PMTK605, fields |-> <<>>]
    ELSE [name |-> PMTK \o call.num, fields |-> call.fields]

\* The read the closure of the running with_retries makes after its write.
closure_read(call, ph) ==
    IF ph = "nmea" THEN [fn |-> "read_pmtk_ack_raw", for_num |-> N314]
    ELSE IF ph = "ready"
    THEN [fn |-> "read_reply_raw", name |-> PMTK705, min_fields |-> 2]
    ELSE IF call.fn = "send_mtk_cmd"
    THEN [fn |-> "read_pmtk_ack_raw", for_num |-> call.num]
    ELSE [fn |-> "read_reply_raw", name |-> PMTK \o call.reply_num,
          min_fields |-> call.reply_min_fields]

\* The control state of the running call.
Ctl ==
    [pc |-> g_pc, phase |-> phase, tries |-> tries, max_tries |-> max_tries,
     rb_tries |-> rb_tries, flag |-> disabled_nmea_output, res |-> g_res,
     op_res |-> op_res, tx_count |-> tx_count, retry_slept |-> retry_slept,
     steps |-> rb_steps, only_retryable |-> only_retryable]

SetCtl(c) ==
    /\ g_pc' = c.pc
    /\ phase' = c.phase
    /\ tries' = c.tries
    /\ max_tries' = c.max_tries
    /\ disabled_nmea_output' = c.flag
    /\ g_res' = c.res
    /\ op_res' = c.op_res
    /\ tx_count' = c.tx_count
    /\ retry_slept' = c.retry_slept
    /\ rb_steps' = c.steps
    /\ only_retryable' = c.only_retryable

\* The public function returns res.
Returned(c, res) == [c EXCEPT !.pc = "done", !.phase = "none", !.res = res]

\* with_retries, lines 631-633: entry.
start_with_retries(c, ph, max) ==
    [c EXCEPT !.pc = "write", !.phase = ph, !.tries = 0, !.max_tries = max,
              !.tx_count = 0, !.retry_slept = 0, !.only_retryable = TRUE]

with_retries_next_no_retry(t, max, res) == "break"

\* with_retries, lines 635-641: the match on what op returned.
with_retries_next(t, max, res) ==
    IF res.tag = "Ok" THEN "break"
    ELSE IF t > max THEN "break"
    ELSE "delay"

\* send_reboot_cmd, lines 232-245: its closure returned res.
send_reboot_cmd_op_ret(c, res) ==
    IF with_retries_next(c.rb_tries, MAX_CMD_TRIES, res) = "break"
    THEN Returned(c, res)
    ELSE [c EXCEPT !.pc = "rb_delay", !.phase = "none", !.op_res = res]

ensure_nmea_output_disabled_ret_ignoring_error(call, c, res) ==
    IF call.fn = "send_reboot_cmd"
    THEN send_reboot_cmd_op_ret(
             IF res.tag = "Ok"
             THEN [c EXCEPT !.steps = Append(c.steps, "ensure_nmea")]
             ELSE c, res)
    ELSE IF call.fn = "ensure_nmea_output_disabled" THEN Returned(c, res)
    ELSE IF call.fn = "read_logs"
    THEN [c EXCEPT !.pc = "lox_write", !.phase = "none"]
    ELSE start_with_retries(c, "cmd", MAX_CMD_TRIES)

\* ensure_nmea_output_disabled returned res to its caller: send_mtk_cmd
\* (line 348), send_mtk_cmd_for_reply (line 391), send_reboot_cmd's
\* closure (line 236), read_logs (line 151) or the application.
ensure_nmea_output_disabled_ret(call, c, res) ==
    IF call.fn = "send_reboot_cmd"
    THEN send_reboot_cmd_op_ret(
             IF res.tag = "Ok"
             THEN [c EXCEPT !.steps = Append(c.steps, "ensure_nmea")]
             ELSE c, res)
    ELSE IF call.fn = "ensure_nmea_output_disabled" THEN Returned(c, res)
    ELSE IF call.fn = "read_logs"
    THEN IF res.tag = "Ok" THEN [c EXCEPT !.pc = "lox_write", !.phase = "none"]
         ELSE Returned(c, res)
    ELSE IF res.tag = "Ok" THEN start_with_retries(c, "cmd", MAX_CMD_TRIES)
    ELSE Returned(c, res)

already_disabled_never(flag) == FALSE

\* ensure_nmea_output_disabled, line 422.
already_disabled(flag) == flag

\* ensure_nmea_output_disabled, lines 421-437: entry.
ensure_nmea_output_disabled_enter(call, c) ==
    IF already_disabled(c.flag)
    THEN ensure_nmea_output_disabled_ret(call, c, [tag |-> "Ok"])
    ELSE start_with_retries(c, "nmea", MAX_CMD_TRIES_WITHOUT_NMEA_DISABLED)

flag_after_cmd_314_always(res, flag) == TRUE

flag_after_cmd_314_never(res, flag) == flag

\* ensure_nmea_output_disabled, lines 438-443: the match on what
\* send_mtk_cmd_without_disabling_nmea returned.
flag_after_cmd_314(res, flag) == IF res.tag = "Ok" THEN TRUE ELSE flag

\* with_retries returned res (lines 636-637) to the function that called
\* it: send_mtk_cmd_without_disabling_nmea for ensure_nmea_output_disabled
\* or for send_mtk_cmd, send_mtk_cmd_for_reply, or check_ready for
\* wait_for_boot (line 303) in send_reboot_cmd's closure (lines 235-236).
with_retries_ret(call, c, res) ==
    IF c.phase = "nmea"
    THEN ensure_nmea_output_disabled_ret(
             call, [c EXCEPT !.flag = flag_after_cmd_314(res, c.flag)], res)
    ELSE IF c.phase = "ready"
    THEN IF res.tag = "Ok"
         THEN ensure_nmea_output_disabled_enter(
                  call, [c EXCEPT !.steps = Append(c.steps, "check_ready")])
         ELSE send_reboot_cmd_op_ret(c, res)
    ELSE Returned(c, res)

\* The errors the retry policy names as worth another attempt.
Retryable == {"Protocol", "Parse", "ReadTimeout", "WriteTimeout"}

\* with_retries, lines 635-642: op returned res.
op_ret(call, c, res) ==
    LET c1 == [c EXCEPT !.op_res = res,
                        !.only_retryable =
                            @ /\ (res.tag = "Ok" \/ res.err \in Retryable)]
    IN  IF with_retries_next(c.tries, c.max_tries, res) = "break"
        THEN with_retries_ret(call, c1, res)
        ELSE [c1 EXCEPT !.pc = "delay"]

\* What the device sends.
Ack(n, st) == serialize(PMTK001, <<n, <<st>>>>)
Garbage == <<102, 111, 111, CR, LF>>
F705 == serialize(PMTK705, <<<<65>>, <<49>>>>)
Spurious == serialize(CDACK, <<<<49>>>>)
LogReply == serialize(PMTK \o LOG, [i \in 1..10 |-> <<ZERO>>])
LogShort == serialize(PMTK \o LOG, [i \in 1..9 |-> <<ZERO>>])
BootSysMsg == serialize(PMTK010, <<F001>>)
BootOther == serialize(PMTK010, <<F002>>)
BootMtkGps == serialize(PMTK011, <<MTKGPS>>)

MAX_POINTS_PER_LOCUS_DATA_PACKET == 12

PMTK622 == PMTK \o <<54, 50, 50>>
PMTKLOX == PMTK \o <<76, 79, 88>>

\* The chunk lists of the data frames the device sends: one point, three
\* chunks, and none.
LoxChunk == <<48, 48, 48, 48, 48, 48, 48, 49>>
LoxChunkLists ==
    {[i \in 1..4 |-> LoxChunk], [i \in 1..3 |-> LoxChunk], <<>>}

LoxStart(count) == serialize(PMTKLOX, <<<<48>>, count>>)
LoxData(index, chunks) == serialize(PMTKLOX, <<<<49>>, index>> \o chunks)
LoxEnd == serialize(PMTKLOX, <<<<50>>, <<48>>>>)
LoxShort == serialize(PMTKLOX, <<<<50>>>>)

\* What the device may send after PMTK622.
LoxReplies ==
    {LoxStart(count) : count \in {<<48>>, <<49>>, <<50>>, <<120>>}}
    \cup {LoxData(index, chunks) :
              index \in {<<48>>, <<49>>}, chunks \in LoxChunkLists}
    \cup {LoxData(<<120>>, <<>>), LoxEnd, LoxShort, Garbage,
          Ack(<<54, 50, 50>>, 51)}

\* How many frames the device sends after one PMTK622 frame, at most.
MaxLoxFrames == 4

\* How many frames the device sends after one reboot frame, at most.
MaxBootFrames == 3

\* The frames the device may send after it received the frame named name:
\* a boot message, or a reply.
DevReplies(name) ==
    IF name \in {PMTK101, PMTK104}
    THEN {BootSysMsg, BootMtkGps, BootOther}
    ELSE IF name = PMTK605 THEN {F705, Spurious}
    ELSE IF name = PMTK \o N183 THEN {LogReply, LogShort, Garbage}
    ELSE IF name = PMTK622 THEN LoxReplies
    ELSE {Garbage} \cup {Ack(SubSeq(name, 5, 7), st) : st \in 48..51}

\* The frames of buf, counted by their closing line feeds.
FramesIn(buf) == Cardinality({i \in 1..Len(buf) : buf[i] = LF})

ctlVars == <<g_pc, phase, tries, max_tries, disabled_nmea_output, g_res,
             op_res, tx_count, retry_slept, rb_steps, only_retryable>>
constVars == <<already_disabled_nmea_output>>
bootVars == <<seen_boot_sys_msg, seen_mtkgps, read_errors, read_spurious>>
readCallVars == <<op, r_pc, cmd, last_is_carriage_return, delayed, r_res,
                  seen, slept, empty_polls>>
devVars == <<dev_frame, dev_pos, junk>>

InitGps ==
    /\ CodecUnused
    /\ ReadUnused
    /\ WriteUnused
    /\ FnUnused
    /\ ring_at_write = <<>>
    /\ already_disabled_nmea_output \in BOOLEAN
    /\ disabled_nmea_output = already_disabled_nmea_output
    /\ only_retryable = TRUE
    /\ g_call = [fn |-> "none"]
    /\ g_pc = "idle"
    /\ phase = "none"
    /\ tries = 0
    /\ max_tries = 0
    /\ rb_tries = 0
    /\ seen_boot_sys_msg = FALSE
    /\ seen_mtkgps = FALSE
    /\ read_errors = 0
    /\ read_spurious = 0
    /\ g_res = NoResult
    /\ op_res = NoResult
    /\ tx_frame = <<>>
    /\ tx_count = 0
    /\ rb_tx_count = 0
    /\ retry_slept = 0
    /\ rb_steps = <<>>
    /\ dev_pending = <<>>
    /\ LogsIdle

\* The state of a call at its entry.
EntryCtl ==
    [pc |-> "idle", phase |-> "none", tries |-> 0, max_tries |-> 0,
     rb_tries |-> 0, flag |-> disabled_nmea_output, res |-> NoResult,
     op_res |-> NoResult, tx_count |-> 0, retry_slept |-> 0, steps |-> <<>>,
     only_retryable |-> TRUE]

\* Entry of read_cmd_raw (lines 570-572) for the read o.
StartRead(o) ==
    /\ r_pc = "idle"
    /\ op' = o
    /\ r_pc' = "reading"
    /\ cmd' = <<>>
    /\ last_is_carriage_return' = FALSE
    /\ delayed' = 0
    /\ r_res' = NoResult
    /\ seen' = <<>>
    /\ slept' = 0
    /\ empty_polls' = 0
    /\ UNCHANGED <<devVars, ring>>

\* read_cmd_raw has returned to its caller: its locals are gone.
EndRead ==
    /\ op' = [fn |-> "none"]
    /\ r_pc' = "idle"
    /\ cmd' = <<>>
    /\ last_is_carriage_return' = FALSE
    /\ delayed' = 0
    /\ r_res' = NoResult
    /\ seen' = <<>>
    /\ slept' = 0
    /\ empty_polls' = 0
    /\ UNCHANGED <<devVars, ring>>

\* The device takes note of the frame named name: a reboot frame makes it
\* start over, another frame is answered unless it is still busy with the
\* frame before.
DevReceives(name) ==
    dev_pending' =
        IF name \in {PMTK101, PMTK104}
        THEN <<[name |-> name, left |-> MaxBootFrames]>>
        ELSE IF dev_pending = <<>>
        THEN <<[name |-> name,
                left |-> IF name = PMTK622 THEN MaxLoxFrames ELSE 1]>>
        ELSE dev_pending

\* send_mtk_cmd (lines 342-350), send_mtk_cmd_for_reply (lines 379-393)
\* and ensure_nmea_output_disabled (lines 421-437) up to the first
\* write_cmd_raw, or to their return when there is none.
CallOf(c) ==
    /\ g_pc \in {"idle", "done"}
    /\ dev_pending = <<>>
    /\ g_call' = c
    /\ SetCtl(ensure_nmea_output_disabled_enter(c, EntryCtl))
    /\ rb_tries' = 0
    /\ rb_tx_count' = 0
    /\ tx_frame' = <<>>
    /\ UNCHANGED <<constVars, ackVars, codecVars, fnVars, logsVars,
                   readVars, writeVars, bootVars, dev_pending>>

CallSendMtkCmd ==
    \E c \in GpsCalls : c.fn = "send_mtk_cmd" /\ CallOf(c)

CallSendMtkCmdForReply ==
    \E c \in GpsCalls : c.fn = "send_mtk_cmd_for_reply" /\ CallOf(c)

CallEnsureNmeaOutputDisabled ==
    \E c \in GpsCalls : c.fn = "ensure_nmea_output_disabled" /\ CallOf(c)

AttemptWriteOk_flushing ==
    /\ g_pc = "write"
    /\ LET f == closure_frame(g_call, phase)
       IN  /\ tx_frame' = serialize(f.name, f.fields)
           /\ DevReceives(f.name)
    /\ SetCtl([Ctl EXCEPT !.pc = "read", !.tries = @ + 1,
                          !.tx_count = @ + 1, !.op_res = NoResult])
    /\ r_pc = "idle"
    /\ op' = closure_read(g_call, phase)
    /\ r_pc' = "reading"
    /\ cmd' = <<>>
    /\ last_is_carriage_return' = FALSE
    /\ delayed' = 0
    /\ r_res' = NoResult
    /\ seen' = <<>>
    /\ slept' = 0
    /\ empty_polls' = 0
    /\ ring' = <<>>
    /\ UNCHANGED devVars
    /\ ring_at_write' = ring
    /\ UNCHANGED <<constVars, codecVars, fnVars, logsVars,
                   writeVars, bootVars, g_call, rb_tries,
                   rb_tx_count>>

\* with_retries line 634 and the closure's write_cmd_raw (lines 362, 400,
\* 320), which returns Ok: the closure goes on to its read.
AttemptWriteOk ==
    /\ g_pc = "write"
    /\ LET f == closure_frame(g_call, phase)
       IN  /\ tx_frame' = serialize(f.name, f.fields)
           /\ DevReceives(f.name)
    /\ SetCtl([Ctl EXCEPT !.pc = "read", !.tries = @ + 1,
                          !.tx_count = @ + 1, !.op_res = NoResult])
    /\ StartRead(closure_read(g_call, phase))
    /\ ring_at_write' = ring
    /\ UNCHANGED <<constVars, codecVars, fnVars, logsVars,
                   writeVars, bootVars, g_call, rb_tries,
                   rb_tx_count>>

\* with_retries line 634 and the closure's write_cmd_raw, which returns
\* WriteTimeout (line 539) or Transmit (line 545).
AttemptWriteErr ==
    /\ g_pc = "write"
    /\ LET f == closure_frame(g_call, phase)
       IN  tx_frame' = serialize(f.name, f.fields)
    /\ \E e \in {"WriteTimeout", "Transmit"} :
          SetCtl(op_ret(g_call,
                        [Ctl EXCEPT !.tries = @ + 1, !.tx_count = @ + 1],
                        GErr(e)))
    /\ UNCHANGED <<constVars, ackVars, codecVars, fnVars, logsVars,
                   readVars, writeVars, bootVars, g_call, rb_tries,
                   rb_tx_count, dev_pending>>

\* The closure's read (lines 363, 401, 323) returned: with_retries' match.
AttemptReadRet ==
    /\ g_pc = "read"
    /\ r_pc = "done"
    /\ EndRead
    /\ SetCtl(op_ret(g_call, Ctl, r_res))
    /\ ring_at_write' = <<>>
    /\ UNCHANGED <<constVars, codecVars, fnVars, logsVars,
                   writeVars, bootVars, g_call, rb_tries,
                   rb_tx_count, tx_frame, dev_pending>>

\* with_retries, lines 638-641.
RetryDelay ==
    /\ g_pc = "delay"
    /\ g_pc' = "write"
    /\ retry_slept' = retry_slept + DELAY_BEFORE_RETRY_US
    /\ UNCHANGED <<constVars, ackVars, codecVars, fnVars, logsVars,
                   readVars, writeVars, bootVars, g_call, rb_tries,
                   rb_tx_count, tx_frame, dev_pending, phase, tries,
                   max_tries, disabled_nmea_output, g_res, op_res, tx_count,
                   only_retryable,
                   rb_steps>>

\* hot_restart (lines 201-205): send_reboot_cmd up to
\* the first run of its closure.
CallSendRebootCmd ==
    /\ g_pc \in {"idle", "done"}
    /\ dev_pending = <<>>
    /\ \E c \in GpsCalls : c.fn = "send_reboot_cmd" /\ g_call' = c
    /\ SetCtl([EntryCtl EXCEPT !.pc = "rb_attempt"])
    /\ rb_tries' = 0
    /\ rb_tx_count' = 0
    /\ tx_frame' = <<>>
    /\ UNCHANGED <<constVars, ackVars, codecVars, fnVars, logsVars,
                   readVars, writeVars, bootVars, dev_pending>>

\* send_reboot_cmd's closure, lines 233-235, and wait_for_boot's lines
\* 255-258: write_cmd_raw returns Ok.
RebootWriteOk ==
    /\ g_pc = "rb_attempt"
    /\ rb_tries' = rb_tries + 1
    /\ rb_tx_count' = rb_tx_count + 1
    /\ tx_frame' = serialize(g_call.cmd, <<>>)
    /\ DevReceives(g_call.cmd)
    /\ SetCtl([Ctl EXCEPT !.pc = "boot", !.flag = FALSE,
                          !.steps = <<"clear_flag", "write_reboot">>])
    /\ seen_boot_sys_msg' = FALSE
    /\ seen_mtkgps' = FALSE
    /\ read_errors' = 0
    /\ read_spurious' = 0
    /\ UNCHANGED <<constVars, ackVars, codecVars, fnVars, logsVars,
                   readVars, writeVars, g_call>>

\* send_reboot_cmd's closure, lines 233-234: write_cmd_raw returns an
\* error, which ends this run of the closure.
RebootWriteErr ==
    /\ g_pc = "rb_attempt"
    /\ rb_tries' = rb_tries + 1
    /\ rb_tx_count' = rb_tx_count + 1
    /\ tx_frame' = serialize(g_call.cmd, <<>>)
    /\ \E e \in {"WriteTimeout", "Transmit"} :
          SetCtl(send_reboot_cmd_op_ret(
                     [Ctl EXCEPT !.rb_tries = @ + 1, !.flag = FALSE,
                                 !.steps = <<"clear_flag">>],
                     GErr(e)))
    /\ UNCHANGED <<constVars, ackVars, codecVars, fnVars, logsVars,
                   readVars, writeVars, bootVars, g_call,
                   dev_pending>>

\* wait_for_boot's loop is left: its locals are gone.
EndWaitForBootLoop ==
    /\ seen_boot_sys_msg' = FALSE
    /\ seen_mtkgps' = FALSE
    /\ read_errors' = 0
    /\ read_spurious' = 0

BootBreak_one_indicator ==
    /\ g_pc = "boot"
    /\ seen_boot_sys_msg \/ seen_mtkgps
    /\ g_pc' = "flush"
    /\ rb_steps' = Append(rb_steps, "boot_indicators")
    /\ EndWaitForBootLoop
    /\ UNCHANGED <<constVars, ackVars, codecVars, fnVars, logsVars,
                   readVars, writeVars, g_call, rb_tries,
                   rb_tx_count, tx_frame, dev_pending, phase, tries,
                   max_tries, disabled_nmea_output, g_res, op_res, tx_count,
                   only_retryable,
                   retry_slept>>

\* wait_for_boot, lines 260-263 and 295: both indicators seen.
BootBreak ==
    /\ g_pc = "boot"
    /\ seen_boot_sys_msg /\ seen_mtkgps
    /\ g_pc' = "flush"
    /\ rb_steps' = Append(rb_steps, "boot_indicators")
    /\ EndWaitForBootLoop
    /\ UNCHANGED <<constVars, ackVars, codecVars, fnVars, logsVars,
                   readVars, writeVars, g_call, rb_tries,
                   rb_tx_count, tx_frame, dev_pending, phase, tries,
                   max_tries, disabled_nmea_output, g_res, op_res, tx_count,
                   only_retryable,
                   retry_slept>>

\* wait_for_boot, lines 265-273.
BootFailed ==
    /\ g_pc = "boot"
    /\ ~(seen_boot_sys_msg /\ seen_mtkgps)
    /\ \/ read_errors > MAX_READ_ERRORS_ON_BOOT
       \/ read_spurious > MAX_READ_SPURIOUS_BEFORE_BOOT
    /\ SetCtl(send_reboot_cmd_op_ret(Ctl, GErr("BootFailed")))
    /\ EndWaitForBootLoop
    /\ UNCHANGED <<constVars, ackVars, codecVars, fnVars, logsVars,
                   readVars, writeVars, g_call, rb_tries,
                   rb_tx_count, tx_frame, dev_pending>>

BootRead_unlimited ==
    /\ g_pc = "boot"
    /\ ~(seen_boot_sys_msg /\ seen_mtkgps)
    /\ g_pc' = "boot_read"
    /\ StartRead([fn |-> "read_cmd_raw"])
    /\ UNCHANGED <<constVars, ackVars, codecVars, fnVars, logsVars,
                   writeVars, bootVars, g_call, rb_tries,
                   rb_tx_count, tx_frame, dev_pending, phase, tries,
                   max_tries, disabled_nmea_output, g_res, op_res, tx_count,
                   only_retryable,
                   retry_slept, rb_steps>>

\* wait_for_boot, line 275: the call of read_cmd_raw.
BootRead ==
    /\ g_pc = "boot"
    /\ ~(seen_boot_sys_msg /\ seen_mtkgps)
    /\ read_errors <= MAX_READ_ERRORS_ON_BOOT
    /\ read_spurious <= MAX_READ_SPURIOUS_BEFORE_BOOT
    /\ g_pc' = "boot_read"
    /\ StartRead([fn |-> "read_cmd_raw"])
    /\ UNCHANGED <<constVars, ackVars, codecVars, fnVars, logsVars,
                   writeVars, bootVars, g_call, rb_tries,
                   rb_tx_count, tx_frame, dev_pending, phase, tries,
                   max_tries, disabled_nmea_output, g_res, op_res, tx_count,
                   only_retryable,
                   retry_slept, rb_steps>>

\* wait_for_boot, lines 275-292: the match on what read_cmd_raw returned.
BootReadRet ==
    /\ g_pc = "boot_read"
    /\ r_pc = "done"
    /\ EndRead
    /\ g_pc' = "boot"
    /\ IF r_res.tag = "Ok"
       THEN IF r_res.name = PMTK010 /\ r_res.fields = <<F001>>
            THEN /\ seen_boot_sys_msg' = TRUE
                 /\ UNCHANGED <<seen_mtkgps, read_errors, read_spurious>>
            ELSE IF r_res.name = PMTK011 /\ r_res.fields = <<MTKGPS>>
            THEN /\ seen_mtkgps' = TRUE
                 /\ UNCHANGED <<seen_boot_sys_msg, read_errors, read_spurious>>
            ELSE /\ read_spurious' = read_spurious + 1
                 /\ UNCHANGED <<seen_boot_sys_msg, seen_mtkgps, read_errors>>
       ELSE /\ read_errors' = read_errors + 1
            /\ UNCHANGED <<seen_boot_sys_msg, seen_mtkgps, read_spurious>>
    /\ UNCHANGED <<constVars, ackVars, codecVars, fnVars, logsVars,
                   writeVars, g_call, rb_tries, rb_tx_count,
                   tx_frame, dev_pending, phase, tries, max_tries,
                   disabled_nmea_output, g_res, op_res, tx_count,
                   retry_slept, rb_steps, only_retryable>>

\* wait_for_boot, lines 296 and 303: flush_rx_queue (lines 556-567)
\* releases what is readable once split_read grants it, and check_ready
\* enters with_retries.  While split_read gives Err (nothing committed)
\* the loop goes round with no change of state: no step here.
FlushRxQueue ==
    /\ g_pc = "flush"
    /\ ring # <<>>
    /\ ring' = <<>>
    /\ SetCtl(start_with_retries(Ctl, "ready",
                                 MAX_READ_SPURIOUS_AFTER_BOOT_READY))
    /\ UNCHANGED <<constVars, ackVars, codecVars, fnVars, logsVars,
                   writeVars, bootVars, g_call, rb_tries,
                   rb_tx_count, tx_frame, dev_pending, devVars, readCallVars>>

\* with_retries, lines 638-641, in send_reboot_cmd.
RebootRetryDelay ==
    /\ g_pc = "rb_delay"
    /\ g_pc' = "rb_attempt"
    /\ UNCHANGED <<constVars, ackVars, codecVars, fnVars, logsVars,
                   readVars, writeVars, bootVars, g_call, rb_tries,
                   rb_tx_count, tx_frame, dev_pending, phase, tries,
                   max_tries, disabled_nmea_output, g_res, op_res, tx_count,
                   only_retryable,
                   retry_slept, rb_steps>>

\* The device (through the UART interrupt) commits its next frame, while
\* the driver reads or between two of its reads.
DevSend ==
    /\ dev_pending # <<>>
    /\ r_pc = "reading" \/ g_pc \in {"delay", "rb_delay", "flush", "done"}
    /\ FramesIn(ring) < MaxRingFrames
    /\ \E f \in DevReplies(dev_pending[1].name) : ring' = ring \o f
    /\ dev_pending' =
           IF dev_pending[1].left > 1
           THEN <<[dev_pending[1] EXCEPT !.left = @ - 1]>>
           ELSE <<>>
    /\ UNCHANGED <<constVars, ackVars, codecVars, fnVars, logsVars,
                   writeVars, devVars, readCallVars, ctlVars,
                   bootVars, g_call, rb_tries, rb_tx_count, tx_frame>>

NextGps ==
    \/ CallSendMtkCmd
    \/ CallSendMtkCmdForReply
    \/ CallEnsureNmeaOutputDisabled
    \/ CallSendRebootCmd
    \/ AttemptWriteOk
    \/ AttemptWriteErr
    \/ AttemptReadRet
    \/ RetryDelay
    \/ RebootWriteOk
    \/ RebootWriteErr
    \/ BootBreak
    \/ BootFailed
    \/ BootRead
    \/ BootReadRet
    \/ FlushRxQueue
    \/ RebootRetryDelay
    \/ DevSend
    \/ ReadTimeout
    \/ ReadEmptyPoll
    \/ ReadGrantAll
SpecGps == InitGps /\ [][NextGps]_vars

\* The driver with the loop of flush_rx_queue not held up; the device
\* sends when it likes, or not at all.
SpecGpsLive == InitGps /\ [][NextGps]_vars /\ WF_vars(FlushRxQueue)

-----------------------------------------------------------------------------
(* The decoding functions: fields, logged points, sectors. *)

IsDigit(c) == c >= 48 /\ c <= 57

RECURSIVE strip_zeros(_)
strip_zeros(ds) ==
    IF Len(ds) > 1 /\ Head(ds) = ZERO THEN strip_zeros(Tail(ds)) ELSE ds

\* Whether the digits a (no leading zeros) are a greater number than the
\* digits b (no leading zeros).
RECURSIVE digits_gt(_, _)
digits_gt(a, b) ==
    IF Len(a) # Len(b) THEN Len(a) > Len(b)
    ELSE IF a = <<>> THEN FALSE
    ELSE IF Head(a) # Head(b) THEN Head(a) > Head(b)
    ELSE digits_gt(Tail(a), Tail(b))

RECURSIVE digits_value(_)
digits_value(ds) ==
    IF ds = <<>> THEN 0
    ELSE 10 * digits_value(SubSeq(ds, 1, Len(ds) - 1)) + (ds[Len(ds)] - 48)

\* lexical_core::parse::<u32> and ::<u8> of the whole of val: an optional
\* leading '+', then one or more decimal digits whose value is at most
\* max (given in digits); the value is returned as digits without leading
\* zeros. Err stands for lexical_core's errors (Empty, InvalidDigit,
\* Overflow).
lexical_parse(val, max) ==
    LET body == IF val # <<>> /\ Head(val) = 43 THEN Tail(val) ELSE val
    IN  IF body = <<>> \/ \E i \in 1..Len(body) : ~IsDigit(body[i])
        THEN [tag |-> "Err"]
        ELSE IF digits_gt(strip_zeros(body), max) THEN [tag |-> "Err"]
        ELSE [tag |-> "Ok", val |-> strip_zeros(body)]

U32_MAX == <<52, 50, 57, 52, 57, 54, 55, 50, 57, 53>>
U8_MAX == <<50, 53, 53>>

integer_field(val) ==
    LET r == lexical_parse(val, U32_MAX)
    IN  IF r.tag = "Err" THEN ParseErr("ParseField") ELSE r

integer_percent_field_no_limit(val) ==
    LET r == lexical_parse(val, U8_MAX)
    IN  IF r.tag = "Err" THEN ParseErr("ParseField")
        ELSE [tag |-> "Ok", val |-> digits_value(r.val)]

integer_percent_field(val) ==
    LET r == lexical_parse(val, U8_MAX)
    IN  IF r.tag = "Err" THEN ParseErr("ParseField")
        ELSE IF digits_value(r.val) > 100 THEN ParseErr("ParseField")
        ELSE [tag |-> "Ok", val |-> digits_value(r.val)]

bool_field(val, truthy, falsy) ==
    IF val = truthy THEN [tag |-> "Ok", val |-> TRUE]
    ELSE IF val = falsy THEN [tag |-> "Ok", val |-> FALSE]
    ELSE ParseErr("ParseField")

\* logger_status, lines 106-140, on the fields send_mtk_cmd_for_reply
\* returned (Rust indexes them from 0).
logger_status_ret(fields) ==
    LET interval == integer_field(fields[5])
        is_on == bool_field(fields[8], <<48>>, <<49>>)
        record_count == integer_field(fields[9])
        percent_full == integer_percent_field(fields[10])
    IN  IF interval.tag = "Err" THEN map_err_Parse(interval)
        ELSE IF is_on.tag = "Err" THEN map_err_Parse(is_on)
        ELSE IF record_count.tag = "Err" THEN map_err_Parse(record_count)
        ELSE IF percent_full.tag = "Err" THEN map_err_Parse(percent_full)
        ELSE [tag |-> "Ok", interval |-> interval.val, is_on |-> is_on.val,
              record_count |-> record_count.val,
              percent_full |-> percent_full.val]

\* The field values the device's PMTKLOG replies are drawn from.
IntegerFields ==
    {<<>>,
     <<48>>,
     <<50>>,
     <<48, 48, 55>>,
     <<51, 55, 54, 57>>,
     <<52, 50, 57, 52, 57, 54, 55, 50, 57, 53>>,
     <<52, 50, 57, 52, 57, 54, 55, 50, 57, 54>>,
     <<57, 57, 57, 57, 57, 57, 57, 57, 57, 57, 57>>,
     <<43, 53>>,
     <<97>>,
     <<49, 120>>,
     <<45, 49>>}
StatusFields == {<<48>>, <<49>>, <<50>>, <<>>, <<48, 49>>, <<116>>}
PercentFields ==
    {<<48>>,
     <<52, 54>>,
     <<49, 48, 48>>,
     <<49, 48, 49>>,
     <<50, 53, 53>>,
     <<50, 53, 54>>,
     <<120>>,
     <<>>,
     <<43, 55>>}

LogReplies ==
    {<<<<52, 53, 54>>, <<48>>, <<49, 49>>, <<51, 49>>>> \o <<interval>> \o <<<<48>>, <<48>>>>
         \o <<status, number, percent>> \o extra :
       interval \in IntegerFields, status \in StatusFields,
       number \in {<<51, 55, 54, 57>>, <<51, 55, 120>>}, percent \in PercentFields,
       extra \in {<<>>, <<<<48>>>>}}

\* locus/logged_point.rs

\* parse_point's loop, lines 76-79: checksum ^= byte, from checksum on.
xor_bytes(bytes, checksum) == Xor(checksum, XorRange(bytes, 1, Len(bytes)))

parse_point_skip_last(bytes) ==
    [tag |-> "Ok",
     point |-> [temp_checksum |-> xor_bytes(SubSeq(bytes, 1, 15), 0)]]

parse_point(bytes) ==
    [tag |-> "Ok", point |-> [temp_checksum |-> xor_bytes(bytes, 0)]]

\* hex::decode_to_slice of an 8-character chunk into 4 bytes: <<>> stands
\* for its error (a character that is no hex digit).
hex_decode_to_slice(chunk) ==
    IF \E i \in 1..Len(chunk) : char_to_digit(chunk[i]) < 0 THEN <<>>
    ELSE [n \in 1..(Len(chunk) \div 2) |->
             16 * char_to_digit(chunk[2 * n - 1]) + char_to_digit(chunk[2 * n])]

\* Lines 43-60 for the chunks n..4 of one group: the 16 bytes of data, or
\* the error of the first chunk that fails.
RECURSIVE decode_chunks(_, _, _)
decode_chunks(data_chunks, n, data) ==
    IF n > 4 THEN [tag |-> "Ok", data |-> data]
    ELSE IF Len(data_chunks[n]) # 8
    THEN [tag |-> "Err", err |-> "InvalidFieldLength"]
    ELSE IF hex_decode_to_slice(data_chunks[n]) = <<>>
    THEN [tag |-> "Err", err |-> "HexDecode"]
    ELSE decode_chunks(data_chunks, n + 1,
                       data \o hex_decode_to_slice(data_chunks[n]))

\* Lines 40-64: the loop over fields.chunks_exact(4); points are the
\* calls of on_point made so far.  A group is decoded from its own four
\* chunks alone, so the loop is given by its iterations: it calls on_point
\* for each group before the first one that fails to decode and returns
\* that one's error, or Ok when none fails.
parse_groups(fields, points) ==
    LET d(g) == decode_chunks(SubSeq(fields, 4 * g - 3, 4 * g), 1, <<>>)
        failed == {g \in 1..(Len(fields) \div 4) : d(g).tag = "Err"}
        ran == IF failed = {} THEN Len(fields) \div 4
               ELSE (CHOOSE g \in failed : \A h \in failed : g <= h) - 1
    IN  [res |-> IF failed = {} THEN [tag |-> "Ok"] ELSE d(ran + 1),
         points |-> points \o [g \in 1..ran |-> parse_point(d(g).data).point]]

parse_data_fields_no_count_check(fields) == parse_groups(fields, <<>>)

parse_data_fields(fields) ==
    IF Len(fields) % 4 # 0
    THEN [res |-> [tag |-> "Err", err |-> "InvalidFieldCount"],
          points |-> <<>>]
    ELSE parse_groups(fields, <<>>)

\* The chunks data frames are made of: two of 8 hex digits, one of 7
\* digits, one with a letter that is no hex digit, one of 7 characters
\* with such a letter.
GoodChunks == {<<48, 48, 48, 48, 48, 48, 48, 49>>, <<48, 97, 49, 66, 50, 99, 51, 68>>}
Chunks ==
    GoodChunks \cup {<<48, 48, 48, 48, 48, 48, 48>>, <<48, 48, 48, 48, 48, 48, 48, 71>>, <<48, 48, 48, 48, 48, 48, 71>>}

ChunkLists ==
    UNION {[1..n -> Chunks] : n \in 0..4} \cup
    {g \o t : g \in [1..4 -> GoodChunks],
              t \in UNION {[1..n -> Chunks] : n \in 1..4}}

\* The bytes parse_point is called with.
PointBytes == {0, 1, 127, 128, 170, 255}
Points16 ==
    {<<x>> \o [i \in 1..7 |-> f] \o <<y>> \o [i \in 1..6 |-> f] \o <<z>> :
        x \in PointBytes, y \in PointBytes, z \in PointBytes, f \in {0, 85}}

\* logger/parser.rs

MAX_HEADER2_BIT_NUM == 7
HEADER_SIZE == 64
HEADER1_SIZE == 16
HEADER1_CS_BUF_SIZE == 14
HEADER2_SIZE == 44
SECTOR_SIZE == 4096

\* buf[start..end] of Rust (start from 0, end excluded).
Slice(buf, start, end) == SubSeq(buf, start + 1, end)

read_u16_at(buf, start) == buf[start + 1] + 256 * buf[start + 2]

read_i16_at(buf, start) ==
    IF read_u16_at(buf, start) >= 32768
    THEN read_u16_at(buf, start) - 65536
    ELSE read_u16_at(buf, start)

\* A u32 or the bits of an f32, little-endian, as its two 16-bit halves.
read_u32_at(buf, start) ==
    [hi |-> read_u16_at(buf, start + 2), lo |-> read_u16_at(buf, start)]

u8_checksum_for(bytes) == xor_bytes(bytes, 0)

\* u16_checksum_for, lines 324-331: the fold over chunks_exact(2).
RECURSIVE u16_checksum_for(_)
u16_checksum_for(bytes) ==
    IF Len(bytes) < 2 THEN 0
    ELSE Xor(read_u16_at(bytes, 0),
             u16_checksum_for(SubSeq(bytes, 3, Len(bytes))))

\* ContentFlags: the bit of each flag, and contains.
UTC == 0
VALID == 1
LAT == 2
LON == 3
HEIGHT == 4
SPEED == 5
TRK == 6
HDOP == 10
NUM_SAT == 12
FlagBits == {UTC, VALID, LAT, LON, HEIGHT, SPEED, TRK, HDOP, NUM_SAT}

contains(content, bit) == bit \in content

\* ContentFlags::from_bits_truncate of a u32: the known flags set in it
\* (all of them are in its low half).
from_bits_truncate(bits) ==
    {b \in FlagBits : (bits.lo \div (2 ^ b)) % 2 = 1}

\* packet_size, lines 281-315.
packet_size(content) ==
    (IF contains(content, UTC) THEN 4 ELSE 0)
    + (IF contains(content, VALID) THEN 1 ELSE 0)
    + (IF contains(content, LAT) THEN 4 ELSE 0)
    + (IF contains(content, LON) THEN 4 ELSE 0)
    + (IF contains(content, HEIGHT) THEN 2 ELSE 0)
    + (IF contains(content, TRK) THEN 2 ELSE 0)
    + (IF contains(content, SPEED) THEN 2 ELSE 0)
    + (IF contains(content, HDOP) THEN 2 ELSE 0)
    + (IF contains(content, NUM_SAT) THEN 1 ELSE 0)
    + 1

\* packet_count's first loop, lines 246-254: the i it ends with.
last_used_byte(header, i) ==
    LET used == {k \in 0..i : header[HEADER1_SIZE + k + 1] # 255}
    IN  IF used = {} THEN -1
        ELSE CHOOSE k \in used : \A m \in used : m <= k

\* packet_count's second loop, lines 260-266: the j it ends with.
RECURSIVE first_zero_shift(_, _)
first_zero_shift(data, j) ==
    IF j > MAX_HEADER2_BIT_NUM THEN j
    ELSE IF data \div (2 ^ j) = 0 THEN j
    ELSE first_zero_shift(data, j + 1)

packet_count_whole_header(header) ==
    LET i == last_used_byte(header, HEADER_SIZE - HEADER1_SIZE - 1)
    IN  IF i < 0 THEN 0
        ELSE LET j == first_zero_shift(header[HEADER1_SIZE + i + 1], 0)
             IN  IF j = 0 THEN (i + 1) * 8
                 ELSE i * 8 + (MAX_HEADER2_BIT_NUM + 1 - j)

\* packet_count, lines 243-278.
packet_count(header) ==
    LET i == last_used_byte(header, HEADER2_SIZE - 1)
    IN  IF i < 0 THEN 0
        ELSE LET j == first_zero_shift(header[HEADER1_SIZE + i + 1], 0)
             IN  IF j = 0 THEN (i + 1) * 8
                 ELSE i * 8 + (MAX_HEADER2_BIT_NUM + 1 - j)

SectorHeader_parse_no_checksum(header) ==
    [some |-> TRUE,
     content_flags |-> from_bits_truncate(read_u32_at(header, 4)),
     packet_size |-> packet_size(from_bits_truncate(read_u32_at(header, 4))),
     packet_count |-> packet_count(header)]

\* SectorHeader::parse, lines 218-239.
SectorHeader_parse(header) ==
    IF u16_checksum_for(Slice(header, 0, HEADER1_CS_BUF_SIZE))
           # read_u16_at(header, HEADER1_CS_BUF_SIZE)
    THEN [some |-> FALSE]
    ELSE [some |-> TRUE,
          content_flags |-> from_bits_truncate(read_u32_at(header, 4)),
          packet_size |->
              packet_size(from_bits_truncate(read_u32_at(header, 4))),
          packet_count |-> packet_count(header)]

None == [some |-> FALSE]
Some(v) == [some |-> TRUE, val |-> v]

\* Whether the f32 with these bits is at most limit in magnitude (limit
\* given by the high half of its bits, its low half being 0); a NaN is
\* not.
f32_within(bits, limit_hi) ==
    \/ bits.hi % 32768 < limit_hi
    \/ bits.hi % 32768 = limit_hi /\ bits.lo = 0

\* Lines 129-143: the fix a VALID byte stands for.
fix_of(value) ==
    IF (value \div 4) % 2 = 1 THEN Some("DGpsFix")
    ELSE IF (value \div 2) % 2 = 1 THEN Some("GpsFix")
    ELSE IF (value \div 64) % 2 = 1 THEN Some("DeadReckoning")
    ELSE IF value = 0 THEN Some("No")
    ELSE None

decode_packet_trk_before_speed(content, data) ==
    LET a_valid == IF contains(content, UTC) THEN 4 ELSE 0
        a_lat == a_valid + (IF contains(content, VALID) THEN 1 ELSE 0)
        a_lon == a_lat + (IF contains(content, LAT) THEN 4 ELSE 0)
        a_height == a_lon + (IF contains(content, LON) THEN 4 ELSE 0)
        a_trk == a_height + (IF contains(content, HEIGHT) THEN 2 ELSE 0)
        a_speed == a_trk + (IF contains(content, TRK) THEN 2 ELSE 0)
        a_hdop == a_speed + (IF contains(content, SPEED) THEN 2 ELSE 0)
        a_num_sat == a_hdop + (IF contains(content, HDOP) THEN 2 ELSE 0)
        fix == IF contains(content, VALID)
               THEN fix_of(data[a_valid + 1]) ELSE None
        lat == IF contains(content, LAT)
                  /\ f32_within(read_u32_at(data, a_lat), 17076)
               THEN Some(read_u32_at(data, a_lat)) ELSE None
        lon == IF contains(content, LON)
                  /\ f32_within(read_u32_at(data, a_lon), 17204)
               THEN Some(read_u32_at(data, a_lon)) ELSE None
    IN  [packet |->
            [time |-> IF contains(content, UTC)
                      THEN Some(read_u32_at(data, 0)) ELSE None,
             fix |-> fix, lat |-> lat, lon |-> lon,
             height |-> IF contains(content, HEIGHT)
                        THEN Some(read_i16_at(data, a_height)) ELSE None,
             speed |-> IF contains(content, SPEED)
                       THEN Some(read_i16_at(data, a_speed)) ELSE None,
             heading |-> IF contains(content, TRK)
                         THEN Some(read_u16_at(data, a_trk)) ELSE None,
             hdop |-> IF contains(content, HDOP)
                      THEN Some(read_u16_at(data, a_hdop)) ELSE None,
             num_sat |-> IF contains(content, NUM_SAT)
                         THEN Some(data[a_num_sat + 1]) ELSE None],
         invalid_fields |->
            (IF contains(content, VALID) /\ ~fix.some THEN 1 ELSE 0)
            + (IF contains(content, LAT) /\ ~lat.some THEN 1 ELSE 0)
            + (IF contains(content, LON) /\ ~lon.some THEN 1 ELSE 0),
         addr |-> a_num_sat + (IF contains(content, NUM_SAT) THEN 1 ELSE 0)]

\* parse_packet, lines 116-188, on the payload data: the packet and the
\* number of fields that failed validation. addr is computed as the code
\* adds it up, and returned as it is at the end.
decode_packet(content, data) ==
    LET a_valid == IF contains(content, UTC) THEN 4 ELSE 0
        a_lat == a_valid + (IF contains(content, VALID) THEN 1 ELSE 0)
        a_lon == a_lat + (IF contains(content, LAT) THEN 4 ELSE 0)
        a_height == a_lon + (IF contains(content, LON) THEN 4 ELSE 0)
        a_speed == a_height + (IF contains(content, HEIGHT) THEN 2 ELSE 0)
        a_trk == a_speed + (IF contains(content, SPEED) THEN 2 ELSE 0)
        a_hdop == a_trk + (IF contains(content, TRK) THEN 2 ELSE 0)
        a_num_sat == a_hdop + (IF contains(content, HDOP) THEN 2 ELSE 0)
        fix == IF contains(content, VALID)
               THEN fix_of(data[a_valid + 1]) ELSE None
        lat == IF contains(content, LAT)
                  /\ f32_within(read_u32_at(data, a_lat), 17076)
               THEN Some(read_u32_at(data, a_lat)) ELSE None
        lon == IF contains(content, LON)
                  /\ f32_within(read_u32_at(data, a_lon), 17204)
               THEN Some(read_u32_at(data, a_lon)) ELSE None
    IN  [packet |->
            [time |-> IF contains(content, UTC)
                      THEN Some(read_u32_at(data, 0)) ELSE None,
             fix |-> fix, lat |-> lat, lon |-> lon,
             height |-> IF contains(content, HEIGHT)
                        THEN Some(read_i16_at(data, a_height)) ELSE None,
             speed |-> IF contains(content, SPEED)
                       THEN Some(read_i16_at(data, a_speed)) ELSE None,
             heading |-> IF contains(content, TRK)
                         THEN Some(read_u16_at(data, a_trk)) ELSE None,
             hdop |-> IF contains(content, HDOP)
                      THEN Some(read_u16_at(data, a_hdop)) ELSE None,
             num_sat |-> IF contains(content, NUM_SAT)
                         THEN Some(data[a_num_sat + 1]) ELSE None],
         invalid_fields |->
            (IF contains(content, VALID) /\ ~fix.some THEN 1 ELSE 0)
            + (IF contains(content, LAT) /\ ~lat.some THEN 1 ELSE 0)
            + (IF contains(content, LON) /\ ~lon.some THEN 1 ELSE 0),
         addr |-> a_num_sat + (IF contains(content, NUM_SAT) THEN 1 ELSE 0)]

parse_packet_no_checksum(header, data) ==
    LET d == decode_packet(header.content_flags,
                           Slice(data, 0, Len(data) - 1))
    IN  [ok |-> TRUE, packet |-> d.packet,
         invalid_fields |-> d.invalid_fields, addr |-> d.addr]

\* parse_packet, lines 104-192, on one packet: whether its checksum was
\* right and, if so, the packet handed to on_packet and the number of its
\* fields that failed validation.
parse_packet(header, data) ==
    IF u8_checksum_for(Slice(data, 0, Len(data) - 1)) # data[Len(data)]
    THEN [ok |-> FALSE]
    ELSE LET d == decode_packet(header.content_flags,
                                Slice(data, 0, Len(data) - 1))
         IN  [ok |-> TRUE, packet |-> d.packet,
              invalid_fields |-> d.invalid_fields, addr |-> d.addr]

\* parse_sector's loop, lines 94-100. The iterations are independent but
\* for the counters, so the loop is given by its iterations: ran is the
\* number of them that ran before a slice past the end of the sector made
\* the loop panic, or all of them.
parse_packets(p, header, sector) ==
    LET fit == (Len(sector) - HEADER_SIZE) \div header.packet_size
        ran == IF header.packet_count <= fit THEN header.packet_count ELSE fit
        start(packet_i) == HEADER_SIZE + packet_i * header.packet_size
        out == [k \in 1..ran |->
                   parse_packet(header,
                       Slice(sector, start(k - 1),
                             start(k - 1) + header.packet_size))]
        is_ok(o) == o.ok
        good == SelectSeq(out, is_ok)
    IN  [stats |->
            [p.stats EXCEPT
                !.invalid_packets = @ + (ran - Len(good)),
                !.packets_parsed = @ + Len(good),
                !.invalid_fields = @ + Cardinality(
                    {c \in (1..Len(good)) \X (1..3) :
                        c[2] <= good[c[1]].invalid_fields})],
         packets |-> p.packets \o [k \in 1..Len(good) |-> good[k].packet],
         panicked |-> ran < header.packet_count]

\* parse_sector, lines 74-102.
parse_sector(p, sector) ==
    LET header == SectorHeader_parse(Slice(sector, 0, HEADER_SIZE))
    IN  IF ~header.some
        THEN [p EXCEPT !.stats.invalid_sectors = @ + 1]
        ELSE IF header.packet_count = 0
        THEN [p EXCEPT !.stats.empty_sectors = @ + 1]
        ELSE parse_packets(p, header, sector)

\* Parser::parse's loop, lines 66-70, from sector sector_i on; a panic in a
\* sector ends it.
RECURSIVE parse_sectors(_, _, _, _)
parse_sectors(p, data, sector_i, sector_count) ==
    IF sector_i >= sector_count \/ p.panicked THEN p
    ELSE parse_sectors(
             parse_sector(p, Slice(data, sector_i * SECTOR_SIZE,
                                   sector_i * SECTOR_SIZE + SECTOR_SIZE)),
             data, sector_i + 1, sector_count)

\* Parser::parse, lines 62-72.
Parser_parse(p, data) ==
    parse_sectors(
        [p EXCEPT !.stats.sector_count = Len(data) \div SECTOR_SIZE],
        data, 0, Len(data) \div SECTOR_SIZE)

\* Parser::new, lines 42-55, with an on_packet that collects the packets.
Parser_new ==
    [stats |-> [sector_count |-> 0, empty_sectors |-> 0,
                invalid_sectors |-> 0, invalid_packets |-> 0,
                packets_parsed |-> 0, invalid_fields |-> 0],
     packets |-> <<>>, panicked |-> FALSE]

\* The sectors handed to parse_sector: a 14-byte start of the header with
\* one of a few flag words, its checksum right or wrong in either byte or
\* with its bytes swapped, a bitmap, and packet bytes.
Header1s ==
    {<<1, 0, 2, 1, f0, f1, 0, 0, 16, 39, 0, 0, 171, 205>> :
        f0 \in {0, 3, 63}, f1 \in {0, 20}}

ChecksumBytes(h1) ==
    LET cs == u16_checksum_for(h1)
    IN  {<<cs % 256, cs \div 256>>, <<Xor(cs % 256, 1), cs \div 256>>,
         <<cs % 256, Xor(cs \div 256, 128)>>, <<cs \div 256, cs % 256>>}

Bitmaps ==
    LET with(first) == first \o [i \in 1..(HEADER2_SIZE - Len(first)) |-> 255]
    IN  {with(<<>>), with(<<128>>), with(<<127>>), with(<<0>>),
         with(<<0, 15>>), [i \in 1..HEADER2_SIZE |-> 0]}

PacketBytes ==
    {[i \in 1..(SECTOR_SIZE - HEADER_SIZE) |-> 0],
     [i \in 1..(SECTOR_SIZE - HEADER_SIZE) |-> 255],
     [i \in 1..(SECTOR_SIZE - HEADER_SIZE) |-> (i * 7) % 256]}

Header1WithChecksum == UNION {{h1 \o cs : cs \in ChecksumBytes(h1)} : h1 \in Header1s}

Sectors ==
    {h \o bm \o <<255, 255, 255, 255>> \o pk :
        h \in Header1WithChecksum, bm \in Bitmaps, pk \in PacketBytes}


-----------------------------------------------------------------------------
(* lib.rs: read_logs. Its ensure_nmea_output_disabled runs as it does for
   the command functions; its write of PMTK622 is one step with each of
   write_cmd_raw's returns, and each of its reads runs as the reader
   does. *)

\* The conversion of `?` from the error of a field or of a logged point.
from_ParseError(r) == IF r.tag = "Ok" THEN r ELSE GErrParse(r.err)
from_ParseLoggedPointError(r) ==
    IF r.tag = "Ok" THEN r
    ELSE [tag |-> "Err", err |-> "ParseLoggedPoint", cause |-> r.err]

\* The locals of read_logs, and what on_point was called with.
Locus ==
    [stage |-> locus_stage, n |-> locus_n,
     packet_count |-> locus_packet_count,
     point_count_estimate |-> point_count_estimate,
     on_point_calls |-> on_point_calls, frame_points |-> frame_points]

SetLocus(l) ==
    /\ locus_stage' = l.stage
    /\ locus_n' = l.n
    /\ locus_packet_count' = l.packet_count
    /\ point_count_estimate' = l.point_count_estimate
    /\ on_point_calls' = l.on_point_calls
    /\ frame_points' = l.frame_points

\* read_logs returns res.
LocusReturn(l, res) == [ret |-> res, locus |-> [l EXCEPT !.stage = "none"]]

\* read_logs goes on to read the frame of stage.
LocusRead(l, stage) == [ret |-> NoResult, locus |-> [l EXCEPT !.stage = stage]]

\* Lines 157-165 and 167: read_reply_raw returned res for the start frame.
locus_start_ret(l, res) ==
    IF res.tag = "Err" THEN LocusReturn(l, res)
    ELSE IF res.fields[1] # <<48>> THEN LocusReturn(l, GErr("Protocol"))
    ELSE LET count == from_ParseError(integer_field(res.fields[2]))
         IN  IF count.tag = "Err" THEN LocusReturn(l, count)
             ELSE LET l1 == [l EXCEPT
                              !.packet_count = digits_value(count.val),
                              !.point_count_estimate =
                                  digits_value(count.val)
                                  * MAX_POINTS_PER_LOCUS_DATA_PACKET,
                              !.n = 0]
                  IN  LocusRead(l1, IF l1.packet_count = 0 THEN "end"
                                    ELSE "data")

\* on_point is called for each of points, in order.
on_points(l, points) ==
    [l EXCEPT !.on_point_calls =
                  @ \o [i \in 1..Len(points) |->
                           [estimate |-> l.point_count_estimate,
                            point |-> points[i]]],
              !.frame_points = Len(points)]

locus_data_ret_any_index(l, res) ==
    IF res.tag = "Err" THEN LocusReturn(l, res)
    ELSE IF res.fields[1] # <<49>> THEN LocusReturn(l, GErr("Protocol"))
    ELSE LET actual_n == from_ParseError(integer_field(res.fields[2]))
         IN  IF actual_n.tag = "Err" THEN LocusReturn(l, actual_n)
             ELSE LET d == parse_data_fields(
                               SubSeq(res.fields, 3, Len(res.fields)))
                      l1 == on_points(l, d.points)
                  IN  IF d.res.tag = "Err"
                      THEN LocusReturn(l1, from_ParseLoggedPointError(d.res))
                      ELSE LocusRead([l1 EXCEPT !.n = @ + 1],
                                     IF l.n + 1 < l.packet_count
                                     THEN "data" ELSE "end")

\* Lines 167-189: read_reply_raw returned res for a data frame.
locus_data_ret(l, res) ==
    IF res.tag = "Err" THEN LocusReturn(l, res)
    ELSE IF res.fields[1] # <<49>> THEN LocusReturn(l, GErr("Protocol"))
    ELSE LET actual_n == from_ParseError(integer_field(res.fields[2]))
         IN  IF actual_n.tag = "Err" THEN LocusReturn(l, actual_n)
             ELSE IF digits_value(actual_n.val) # l.n
             THEN LocusReturn(l, GErr("Protocol"))
             ELSE LET d == parse_data_fields(
                               SubSeq(res.fields, 3, Len(res.fields)))
                      l1 == on_points(l, d.points)
                  IN  IF d.res.tag = "Err"
                      THEN LocusReturn(l1, from_ParseLoggedPointError(d.res))
                      ELSE LocusRead([l1 EXCEPT !.n = @ + 1],
                                     IF l.n + 1 < l.packet_count
                                     THEN "data" ELSE "end")

\* Lines 191-197: read_reply_raw returned res for the end frame.
locus_end_ret(l, res) ==
    IF res.tag = "Err" THEN LocusReturn(l, res)
    ELSE IF res.fields[1] # <<50>> THEN LocusReturn(l, GErr("Protocol"))
    ELSE LocusReturn(l, [tag |-> "Ok"])

\* read_logs (lines 143-151) up to the first write_cmd_raw, or to its
\* return when ensure_nmea_output_disabled fails without one.
CallReadLogs ==
    /\ g_pc \in {"idle", "done"}
    /\ dev_pending = <<>>
    /\ g_call' = [fn |-> "read_logs"]
    /\ SetCtl(ensure_nmea_output_disabled_enter([fn |-> "read_logs"],
                                                EntryCtl))
    /\ rb_tries' = 0
    /\ rb_tx_count' = 0
    /\ tx_frame' = <<>>
    /\ SetLocus([stage |-> "none", n |-> 0, packet_count |-> 0,
                 point_count_estimate |-> 0, on_point_calls |-> <<>>,
                 frame_points |-> 0])
    /\ lox_tx_count' = 0
    /\ lox_frames' = <<>>
    /\ UNCHANGED <<constVars, ackVars, codecVars, fnVars, readVars, writeVars,
                   bootVars, dev_pending>>

LoxWriteOk_and_retry ==
    /\ g_pc = "lox_write"
    /\ tx_frame' = serialize(PMTK622, <<<<ZERO>>>>)
    /\ lox_tx_count' = lox_tx_count + 1
    /\ DevReceives(PMTK622)
    /\ g_pc' = IF lox_tx_count = 0 THEN "lox_write" ELSE "lox"
    /\ locus_stage' = "start"
    /\ UNCHANGED <<constVars, ackVars, codecVars, fnVars, readVars, writeVars,
                   bootVars, g_call, rb_tries, rb_tx_count, phase, tries,
                   max_tries, disabled_nmea_output, g_res, op_res, tx_count,
                   only_retryable, retry_slept, rb_steps, locus_n,
                   locus_packet_count, point_count_estimate, on_point_calls,
                   frame_points, lox_frames>>

\* Line 155: write_cmd_raw returns Ok.
LoxWriteOk ==
    /\ g_pc = "lox_write"
    /\ tx_frame' = serialize(PMTK622, <<<<ZERO>>>>)
    /\ lox_tx_count' = lox_tx_count + 1
    /\ DevReceives(PMTK622)
    /\ g_pc' = "lox"
    /\ locus_stage' = "start"
    /\ UNCHANGED <<constVars, ackVars, codecVars, fnVars, readVars, writeVars,
                   bootVars, g_call, rb_tries, rb_tx_count, phase, tries,
                   max_tries, disabled_nmea_output, g_res, op_res, tx_count,
                   only_retryable, retry_slept, rb_steps, locus_n,
                   locus_packet_count, point_count_estimate, on_point_calls,
                   frame_points, lox_frames>>

\* Line 155: write_cmd_raw returns WriteTimeout or Transmit, and `?`
\* returns it.
LoxWriteErr ==
    /\ g_pc = "lox_write"
    /\ tx_frame' = serialize(PMTK622, <<<<ZERO>>>>)
    /\ lox_tx_count' = lox_tx_count + 1
    /\ \E e \in {"WriteTimeout", "Transmit"} :
          SetCtl(Returned(Ctl, GErr(e)))
    /\ UNCHANGED <<constVars, ackVars, codecVars, fnVars, readVars, writeVars,
                   bootVars, g_call, rb_tries, rb_tx_count, dev_pending,
                   locus_stage, locus_n, locus_packet_count,
                   point_count_estimate, on_point_calls, frame_points,
                   lox_frames>>

\* Lines 157, 168, 191: the call of read_reply_raw, up to its call of
\* read_cmd_raw (line 489).
LoxRead ==
    /\ g_pc = "lox"
    /\ g_pc' = "lox_read"
    /\ StartRead([fn |-> "read_cmd_raw"])
    /\ UNCHANGED <<constVars, ackVars, codecVars, fnVars, logsVars, writeVars,
                   bootVars, g_call, rb_tries, rb_tx_count, tx_frame,
                   dev_pending, phase, tries, max_tries,
                   disabled_nmea_output, g_res, op_res, tx_count,
                   only_retryable, retry_slept, rb_steps>>

\* Lines 157-197: read_cmd_raw returned to read_reply_raw (lines 489-518),
\* and that to read_logs.
LoxReadRet ==
    /\ g_pc = "lox_read"
    /\ r_pc = "done"
    /\ EndRead
    /\ lox_frames' = Append(lox_frames, r_res)
    /\ LET res == read_reply_raw_ret(PMTKLOX, 2, r_res)
           next == IF locus_stage = "start" THEN locus_start_ret(Locus, res)
                   ELSE IF locus_stage = "data"
                   THEN locus_data_ret(Locus, res)
                   ELSE locus_end_ret(Locus, res)
       IN  /\ SetLocus(next.locus)
           /\ IF next.ret = NoResult
              THEN SetCtl([Ctl EXCEPT !.pc = "lox"])
              ELSE SetCtl(Returned(Ctl, next.ret))
    /\ UNCHANGED <<constVars, ackVars, codecVars, fnVars, writeVars, bootVars,
                   g_call, rb_tries, rb_tx_count, tx_frame, dev_pending,
                   lox_tx_count>>

InitLogs == InitGps

NextLogs ==
    \/ CallReadLogs
    \/ AttemptWriteOk
    \/ AttemptWriteErr
    \/ AttemptReadRet
    \/ RetryDelay
    \/ LoxWriteOk
    \/ LoxWriteErr
    \/ LoxRead
    \/ LoxReadRet
    \/ DevSend
    \/ ReadTimeout
    \/ ReadEmptyPoll
    \/ ReadGrantAll

SpecLogs == InitLogs /\ [][NextLogs]_vars

\* The commands that first disable the NMEA output, one after another:
\* the command functions, and then read_logs.
NextCmds ==
    \/ LogsIdle /\ CallSendMtkCmd
    \/ LogsIdle /\ CallSendMtkCmdForReply
    \/ CallReadLogs
    \/ AttemptWriteOk
    \/ AttemptWriteErr
    \/ AttemptReadRet
    \/ RetryDelay
    \/ LoxWriteOk
    \/ LoxWriteErr
    \/ LoxRead
    \/ LoxReadRet
    \/ DevSend
    \/ ReadTimeout
    \/ ReadEmptyPoll
    \/ ReadGrantAll

SpecCmds == InitGps /\ [][NextCmds]_vars

-----------------------------------------------------------------------------
(* The decoding functions and one iteration of read_logs' loop, called on
   their own. *)

\* The chunk lists of a data frame: none, 1, 12 and 13 points, three
\* chunks, and a point whose last chunk has a letter that is no hex digit.
LocusChunkLists ==
    {[i \in 1..k |-> LoxChunk] : k \in {0, 3, 4, 48, 52}}
    \cup {<<LoxChunk, LoxChunk, LoxChunk, <<48, 48, 48, 48, 48, 48, 48, 71>>>>}

\* What read_reply_raw may return for a data frame.
LocusDataReplies ==
    {GErr("ReadTimeout"), GErr("Protocol")}
    \cup {[tag |-> "Ok", fields |-> <<kind, index>> \o chunks] :
             kind \in {<<49>>, <<50>>},
             index \in {<<48>>, <<49>>, <<120>>},
             chunks \in LocusChunkLists}

\* read_logs at the read of a data frame: the first of one, the first of
\* two, and the second of two after 12 points.
LocusAtData ==
    {[stage |-> "data", n |-> s[1], packet_count |-> s[2],
      point_count_estimate |-> s[2] * MAX_POINTS_PER_LOCUS_DATA_PACKET,
      on_point_calls |->
          [i \in 1..s[3] |->
              [estimate |-> s[2] * MAX_POINTS_PER_LOCUS_DATA_PACKET,
               point |-> [temp_checksum |-> 0]]],
      frame_points |-> s[3]] :
        s \in {<<0, 1, 0>>, <<0, 2, 0>>, <<1, 2, 12>>}}

\* The sectors of the data handed to Parser::parse: one with a wrong header
\* checksum, one with no packet, one with eight packets of 18 bytes of
\* which every second has a wrong checksum byte, and one whose bitmap
\* counts 352 packets of 18 bytes.
SectorOf(h1, cs_ok, bitmap, packets) ==
    h1
    \o <<IF cs_ok THEN u16_checksum_for(h1) % 256
                  ELSE Xor(u16_checksum_for(h1) % 256, 1),
         u16_checksum_for(h1) \div 256>>
    \o bitmap
    \o [i \in 1..(HEADER_SIZE - HEADER1_SIZE - HEADER2_SIZE) |-> 255]
    \o packets
    \o [i \in 1..((SECTOR_SIZE - HEADER_SIZE) - Len(packets)) |-> 255]

Header1Of(f0, f1) == <<1, 0, 2, 1, f0, f1, 0, 0, 16, 39, 0, 0, 171, 205>>

BitmapOf(first) == first \o [i \in 1..(HEADER2_SIZE - Len(first)) |-> 255]

PayloadOf(k) == [i \in 1..17 |-> (k * 31 + i * 7) % 256]

PacketOf(k) ==
    PayloadOf(k) \o <<Xor(u8_checksum_for(PayloadOf(k)), k % 2)>>

EightPackets ==
    PacketOf(0) \o PacketOf(1) \o PacketOf(2) \o PacketOf(3)
    \o PacketOf(4) \o PacketOf(5) \o PacketOf(6) \o PacketOf(7)

SectorInvalid == SectorOf(Header1Of(63, 0), FALSE, BitmapOf(<<0>>), EightPackets)
SectorEmpty == SectorOf(Header1Of(63, 0), TRUE, BitmapOf(<<>>), EightPackets)
SectorEight == SectorOf(Header1Of(63, 0), TRUE, BitmapOf(<<0>>), EightPackets)
SectorOverfull ==
    SectorOf(Header1Of(63, 0), TRUE, [i \in 1..HEADER2_SIZE |-> 0],
             [i \in 1..(SECTOR_SIZE - HEADER_SIZE) |-> 0])

PartialSector == [i \in 1..100 |-> 255]

\* The data of one call of Parser::parse: whole sectors and, for some, the
\* start of one more.
ParseData ==
    {<<>>, PartialSector, SectorInvalid, SectorEmpty, SectorEight,
     SectorEight \o PartialSector, SectorInvalid \o SectorEight,
     SectorEight \o SectorEmpty, SectorEight \o SectorEight,
     SectorEmpty \o SectorInvalid \o PartialSector,
     SectorOverfull, SectorEight \o SectorOverfull}

\* How many times Parser::parse is called on one Parser, at most.
MaxParseCalls == 2

\* The packets handed to parse_packet: for every set of flags, payloads of
\* the packet's size whose bytes all differ, or are all one value that is
\* or is not a fix, a latitude or a longitude, with their checksum byte,
\* right or not.
PayloadBytes(size) ==
    {[i \in 1..size |-> (i * 37 + 11) % 256],
     [i \in 1..size |-> IF i % 2 = 0 THEN 67 ELSE 0]}
    \cup {[i \in 1..size |-> v] : v \in {0, 8, 66, 67, 128, 255}}

PacketsOf(content) ==
    {[header |-> [some |-> TRUE, content_flags |-> content,
                  packet_size |-> packet_size(content), packet_count |-> 1],
      data |-> payload \o <<Xor(u8_checksum_for(payload), damage)>>] :
        payload \in PayloadBytes(packet_size(content) - 1),
        damage \in {0, 16}}

Packets == UNION {PacketsOf(content) : content \in SUBSET FlagBits}

\* The headers handed to packet_count: i bytes of one value before byte i
\* of the 48 after header-1, the byte b there, and 0xFF up to the end of
\* the header.
BitmapHeaders ==
    {[k \in 1..HEADER_SIZE |->
         IF k <= HEADER1_SIZE + i THEN fill
         ELSE IF k = HEADER1_SIZE + i + 1 THEN b
         ELSE 255] :
        i \in 0..(HEADER_SIZE - HEADER1_SIZE - 1), b \in 0..255,
        fill \in {0, 255}}

InitFn ==
    /\ CodecUnused
    /\ ReadUnused
    /\ WriteUnused
    /\ GpsUnused
    /\ \/ /\ p_out = NoResult
          /\ \/ p_fn = "logger_status" /\ p_in \in LogReplies
             \/ p_fn = "parse_data_fields" /\ p_in \in ChunkLists
             \/ p_fn = "parse_point" /\ p_in \in Points16
             \/ p_fn = "parse_sector" /\ p_in \in Sectors
             \/ p_fn = "packet_count" /\ p_in \in BitmapHeaders
             \/ p_fn = "parse_packet" /\ p_in \in Packets
             \/ /\ p_fn = "read_logs_data"
                /\ p_in \in [locus : LocusAtData, res : LocusDataReplies]
       \/ p_fn = "parse" /\ p_in = <<>> /\ p_out = Parser_new

\* logger_status decodes the fields of the reply.
DoLoggerStatus ==
    /\ p_fn = "logger_status"
    /\ p_out = NoResult
    /\ p_out' = logger_status_ret(p_in)
    /\ UNCHANGED <<nonFnVars, p_fn, p_in>>

\* parse_data_fields with an on_point that collects the points.
DoParseDataFields ==
    /\ p_fn = "parse_data_fields"
    /\ p_out = NoResult
    /\ p_out' = parse_data_fields(p_in)
    /\ UNCHANGED <<nonFnVars, p_fn, p_in>>

DoParsePoint ==
    /\ p_fn = "parse_point"
    /\ p_out = NoResult
    /\ p_out' = parse_point(p_in)
    /\ UNCHANGED <<nonFnVars, p_fn, p_in>>

\* parse_sector on a new parser.
DoParseSector ==
    /\ p_fn = "parse_sector"
    /\ p_out = NoResult
    /\ p_out' = parse_sector(Parser_new, p_in)
    /\ UNCHANGED <<nonFnVars, p_fn, p_in>>

\* One more call of Parser::parse on the parser; p_in lists the data of
\* the calls made. A panic leaves no parser to call.
DoParserParse ==
    /\ p_fn = "parse"
    /\ Len(p_in) < MaxParseCalls
    /\ ~p_out.panicked
    /\ \E data \in ParseData :
           /\ p_in' = Append(p_in, data)
           /\ p_out' = Parser_parse(p_out, data)
    /\ UNCHANGED <<nonFnVars, p_fn>>

\* parse_packet on one packet of a sector with the given header.
DoParsePacket ==
    /\ p_fn = "parse_packet"
    /\ p_out = NoResult
    /\ p_out' = parse_packet(p_in.header, p_in.data)
    /\ UNCHANGED <<nonFnVars, p_fn, p_in>>

\* packet_count on a header.
DoPacketCount ==
    /\ p_fn = "packet_count"
    /\ p_out = NoResult
    /\ p_out' = [count |-> packet_count(p_in)]
    /\ UNCHANGED <<nonFnVars, p_fn, p_in>>

\* One iteration of read_logs' loop, from the return of its read.
DoLocusData ==
    /\ p_fn = "read_logs_data"
    /\ p_out = NoResult
    /\ p_out' = locus_data_ret(p_in.locus, p_in.res)
    /\ UNCHANGED <<nonFnVars, p_fn, p_in>>

NextFn ==
    \/ DoLoggerStatus
    \/ DoParseDataFields
    \/ DoParsePoint
    \/ DoParseSector
    \/ DoPacketCount
    \/ DoParsePacket
    \/ DoParserParse
    \/ DoLocusData

SpecFn == InitFn /\ [][NextFn]_vars

-----------------------------------------------------------------------------
(* Vocabulary of the frame format, stated apart from the codec's code. *)

UpperHex == (48..57) \cup (65..70)
AnyHex == UpperHex \cup (97..102)
HexValue(c) == IF c <= 57 THEN c - 48 ELSE IF c <= 70 THEN c - 55 ELSE c - 87

BitOf(v, k) == (v \div (2 ^ k)) % 2
OddBit(s, k) == Cardinality({i \in DOMAIN s : BitOf(s[i], k) = 1}) % 2
RECURSIVE XorOfBytesFrom(_, _)
XorOfBytesFrom(s, k) ==
    IF k > 7 THEN 0 ELSE (2 ^ k) * OddBit(s, k) + XorOfBytesFrom(s, k + 1)
XorOfBytes(s) == XorOfBytesFrom(s, 0)

RECURSIVE JoinFields(_)
JoinFields(fs) ==
    IF fs = <<>> THEN <<>> ELSE <<COMMA>> \o Head(fs) \o JoinFields(Tail(fs))

FirstAt(w, S) ==
    LET hits == {i \in 2..Len(w) : w[i] \in S}
    IN  IF hits = {} THEN 0 ELSE CHOOSE i \in hits : \A j \in hits : i <= j

\* C1: for every non-empty name without ',' or '*' and every list of fields
\* without ',' or '*' (empty fields and the empty list included),
\* parse(serialize(name, fields)) returns Ok((name, fields)).
C1_RoundTrip ==
    (c_pc = "parsed" /\ ~c_edited) => c_res = ParseOk(c_name, c_fields)

C1_Witness ==
    /\ c_pc = "parsed" /\ ~c_edited /\ c_res.tag = "Ok"
    /\ Len(c_fields) = 2 /\ c_fields[1] = <<>> /\ c_fields[2] = <<CR>>
    /\ c_name = <<65, 66>>

\* C2: serialize emits '$', the name, ',' and the bytes of each field in
\* order, '*', two characters of 0-9A-F whose hex value is the XOR of the
\* bytes strictly between '$' and '*', then '\r\n'; to_ascii yields two
\* upper-case hex digits of its value for each of the 256 checksums.
C2_SerializeFormat ==
    /\ (c_pc = "serialized") =>
          LET w == c_wire
              n == Len(w)
              body == SubSeq(w, 2, n - 5)
          IN  /\ n >= 7
              /\ w[1] = DOLLAR
              /\ body = c_name \o JoinFields(c_fields)
              /\ w[n - 4] = STAR
              /\ w[n - 3] \in UpperHex /\ w[n - 2] \in UpperHex
              /\ 16 * HexValue(w[n - 3]) + HexValue(w[n - 2]) = XorOfBytes(body)
              /\ w[n - 1] = CR /\ w[n] = LF
    /\ (c_pc = "ascii") =>
          /\ Len(c_ascii) = 2
          /\ c_ascii[1] \in UpperHex /\ c_ascii[2] \in UpperHex
          /\ 16 * HexValue(c_ascii[1]) + HexValue(c_ascii[2]) = c_ck

C2_Witness ==
    /\ c_pc = "serialized" /\ c_name = <<65, 66>>
    /\ c_fields = <<<<>>, <<>>>>
    /\ c_wire[Len(c_wire) - 3] = ZERO

\* C3: parse reports the first structural defect in the fixed order
\* ExpectedPrefix, ExpectedName, ExpectedField, ExpectedChecksum,
\* ChecksumParse (always for two non-hex bytes), ExpectedSuffix, ExpectedEnd,
\* and WrongChecksum only for a structurally complete frame; it returns Ok
\* only for a structurally complete frame whose checksum matches.
C3_ParseErrors ==
    (c_pc = "parsed") =>
      LET w == c_wire
          n == Len(w)
          d == FirstAt(w, {COMMA, STAR})
          st == FirstAt(w, {STAR})
          bothHex == w[st + 1] \in AnyHex /\ w[st + 2] \in AnyHex
          noneHex == w[st + 1] \notin AnyHex /\ w[st + 2] \notin AnyHex
          value == IF bothHex
                   THEN 16 * HexValue(w[st + 1]) + HexValue(w[st + 2])
                   ELSE Checksum_parse(<<w[st + 1], w[st + 2]>>)
      IN  IF n = 0 \/ w[1] # DOLLAR THEN c_res = ParseErr("ExpectedPrefix")
          ELSE IF d = 0 \/ d = 2 THEN c_res = ParseErr("ExpectedName")
          ELSE IF st = 0 THEN c_res = ParseErr("ExpectedField")
          ELSE IF n < st + 2 THEN c_res = ParseErr("ExpectedChecksum")
          ELSE IF noneHex \/ value < 0 THEN c_res = ParseErr("ChecksumParse")
          ELSE IF n < st + 4 \/ w[st + 3] # CR \/ w[st + 4] # LF
               THEN c_res = ParseErr("ExpectedSuffix")
          ELSE IF n > st + 4 THEN c_res = ParseErr("ExpectedEnd")
          ELSE IF value # XorOfBytes(SubSeq(w, 2, st - 1))
               THEN c_res = ParseErr("WrongChecksum")
          ELSE /\ c_res.tag = "Ok"
               /\ c_res.name = SubSeq(w, 2, d - 1)
               /\ JoinFields(c_res.fields) = SubSeq(w, d, st - 1)
               /\ \A k \in DOMAIN c_res.fields :
                      \A i \in DOMAIN c_res.fields[k] :
                          c_res.fields[k][i] # COMMA

C3_Witness ==
    /\ c_pc = "parsed" /\ c_edited /\ c_res = ParseErr("ExpectedEnd")
    /\ c_wire = Append(serialize(<<65>>, <<>>), ZERO)

-----------------------------------------------------------------------------
(* The byte pipeline. *)

NoByte(sq, b) == \A i \in DOMAIN sq : sq[i] # b
HasCrLf(sq) == \E i \in 1..(Len(sq) - 1) : sq[i] = CR /\ sq[i + 1] = LF
ReturnedFrameOrParseError == r_pc = "done" /\ r_res # GErr("ReadTimeout")
ReturnedDevFrame ==
    \E c \in ReaderCmds :
        /\ serialize(c.name, c.fields) = dev_frame
        /\ r_res = ParseOk(c.name, c.fields)

\* C4 as claimed: for every prefix without '$' and every valid frame F, a
\* read_cmd_raw call that receives the prefix followed by F returns the
\* parsed F.
C4_PrefixThenFrame ==
    (/\ ReturnedFrameOrParseError
     /\ dev_pos = Len(dev_frame)
     /\ NoByte(junk, DOLLAR))
    => ReturnedDevFrame

\* C4 as amended: the same for every prefix that contains neither '$' nor a
\* '\r' immediately followed by '\n'.
C4_PrefixWithoutCrLfThenFrame ==
    (/\ ReturnedFrameOrParseError
     /\ dev_pos = Len(dev_frame)
     /\ NoByte(junk, DOLLAR)
     /\ ~HasCrLf(junk))
    => ReturnedDevFrame

C4_Witness ==
    /\ r_pc = "done" /\ junk = <<120, LF, CR>>
    /\ r_res.tag = "Ok" /\ r_res.fields = <<<<ZERO>>>>
    /\ seen = junk \o dev_frame /\ slept = 0

\* C5: consuming a '$' leaves the in-progress frame buffer equal to "$"
\* whatever was accumulated before, and a partial frame that starts with '$'
\* and contains no '\r', followed by a valid frame F, makes the call return
\* the parsed F.
C5_DollarRestartsFrame ==
    /\ (r_pc = "reading" /\ seen # <<>> /\ seen[Len(seen)] = DOLLAR)
          => cmd = <<DOLLAR>>
    /\ (/\ ReturnedFrameOrParseError
        /\ dev_pos = Len(dev_frame)
        /\ junk # <<>> /\ junk[1] = DOLLAR
        /\ NoByte(junk, CR))
       => ReturnedDevFrame

C5_Witness ==
    /\ r_pc = "done" /\ junk = <<DOLLAR, 120, LF>>
    /\ r_res.tag = "Ok" /\ r_res.fields = <<<<ZERO>>>>
    /\ seen = junk \o dev_frame /\ slept = 0

\* C6 as claimed: read_cmd_raw closes the frame exactly when it consumes a
\* '\n' whose immediately preceding byte in the received stream was '\r'; a
\* '\n' preceded by any other byte (a '$' after a '\r' included) never
\* closes a frame.
C6_ClosesExactlyOnCrLf ==
    /\ ReturnedFrameOrParseError =>
          /\ Len(seen) >= 2
          /\ seen[Len(seen)] = LF
          /\ seen[Len(seen) - 1] = CR
    /\ (r_pc = "reading") => ~HasCrLf(seen)

\* C7: every poll that finds the ring empty sleeps 1 us; the call fails
\* with ReadTimeout once the sleep accumulated in it exceeds
\* MAX_READ_CMD_US, and never while it is at most MAX_READ_CMD_US.
C7_ReadTimeout ==
    /\ slept = empty_polls
    /\ (r_pc = "done" /\ r_res = GErr("ReadTimeout"))
          => slept > MAX_READ_CMD_US
    /\ ReturnedFrameOrParseError => slept <= MAX_READ_CMD_US
    /\ (r_pc = "reading") => slept <= MAX_READ_CMD_US + 1

C7_Witness ==
    /\ r_pc = "done" /\ r_res = GErr("ReadTimeout")
    /\ slept = MAX_READ_CMD_US + 1
    /\ seen = <<120>> /\ junk = <<120>> /\ dev_pos = 0
    /\ dev_frame = serialize(<<65>>, <<>>)

-----------------------------------------------------------------------------
(* The writer path. *)

\* C8 as claimed: each byte has its own budget of MAX_WRITE_CMD_US of sleep,
\* so WriteTimeout is returned only for a byte that stayed blocked beyond
\* that budget, however long earlier bytes of the command had to wait.
C8_PerByteBudget ==
    (w_pc = "done" /\ w_res = GErr("WriteTimeout"))
    => w_byte_slept > MAX_WRITE_CMD_US

\* C8 as amended: the budget is one per command: the 1 us sleeps of all
\* bytes add up, WriteTimeout is returned only at a WouldBlock met after
\* more than MAX_WRITE_CMD_US of sleep in the call, no call sleeps longer
\* than MAX_WRITE_CMD_US + 1, and Ok means every byte was accepted in order.
C8_PerCommandBudget ==
    /\ w_slept <= MAX_WRITE_CMD_US + 1
    /\ (w_pc = "done" /\ w_res = GErr("WriteTimeout"))
          => w_slept > MAX_WRITE_CMD_US
    /\ (w_pc = "done" /\ w_res = [tag |-> "Ok"]) => tx_out = w_cmd
    /\ (w_pc # "idle") => tx_out = SubSeq(w_cmd, 1, w_idx)

C8_Witness ==
    /\ w_pc = "done" /\ w_res = GErr("WriteTimeout")
    /\ w_idx = 1 /\ w_byte_slept = 0
    /\ w_cmd = serialize(<<65>>, <<>>)

-----------------------------------------------------------------------------
(* The reply readers. *)

DevCmd == CHOOSE c \in ReplyCmds : serialize(c.name, c.fields) = dev_frame

\* C9: read_reply_raw(name, min_fields) consumes exactly one frame and
\* returns its fields if and only if the frame's name equals the expected
\* name and it has at least min_fields fields; another name or fewer fields
\* yields Protocol; a read or frame-parse failure is returned unchanged.
C9_ReadReply ==
    (r_pc = "done" /\ op.fn = "read_reply_raw") =>
      IF slept > MAX_READ_CMD_US THEN r_res = GErr("ReadTimeout")
      ELSE /\ seen = dev_frame
           /\ seen \o ring = dev_frame \o junk
           /\ IF dev_frame = BadChecksumFrame
              THEN r_res = GErrParse("WrongChecksum")
              ELSE IF /\ DevCmd.name = op.name
                      /\ Len(DevCmd.fields) >= op.min_fields
                   THEN r_res = [tag |-> "Ok", fields |-> DevCmd.fields]
                   ELSE r_res = GErr("Protocol")

C9_Witness ==
    /\ r_pc = "done" /\ op.fn = "read_reply_raw" /\ op.min_fields = 2
    /\ r_res = [tag |-> "Ok", fields |-> <<N604, <<51>>>>]
    /\ ring = Trailer /\ slept = 0

\* C10: read_pmtk_ack_raw(num) on a PMTK001 frame with a one-character
\* status: when the first field differs from num the result is Protocol
\* whatever the status; otherwise '0' gives GpsSaysInvalidCommand, '1'
\* GpsSaysUnsupportedCommand, '2' GpsSaysActionFailed, '3' Ok and any other
\* character Protocol.
C10_AckStatus ==
    (/\ r_pc = "done" /\ op.fn = "read_pmtk_ack_raw"
     /\ slept <= MAX_READ_CMD_US
     /\ dev_frame # BadChecksumFrame
     /\ DevCmd.name = PMTK001
     /\ Len(DevCmd.fields) >= 2
     /\ Len(DevCmd.fields[2]) = 1)
    => LET status == DevCmd.fields[2][1]
       IN  IF DevCmd.fields[1] # op.for_num THEN r_res = GErr("Protocol")
           ELSE IF status = 48 THEN r_res = GErr("GpsSaysInvalidCommand")
           ELSE IF status = 49 THEN r_res = GErr("GpsSaysUnsupportedCommand")
           ELSE IF status = 50 THEN r_res = GErr("GpsSaysActionFailed")
           ELSE IF status = 51 THEN r_res = [tag |-> "Ok"]
           ELSE r_res = GErr("Protocol")

C10_Witness ==
    /\ r_pc = "done" /\ op.fn = "read_pmtk_ack_raw"
    /\ dev_frame = serialize(PMTK001, <<N600, <<48>>>>)
    /\ r_res = GErr("Protocol")
    /\ ring = <<>> /\ junk = <<>> /\ slept = 0

\* The device sent a whole PMTK001 frame and read_pmtk_ack_raw read it.
AckFrameRead ==
    /\ r_pc = "done" /\ op.fn = "read_pmtk_ack_raw"
    /\ slept <= MAX_READ_CMD_US
    /\ dev_frame # BadChecksumFrame
    /\ DevCmd.name = PMTK001

\* C11 as claimed: read_pmtk_ack_raw accepts a PMTK001 frame only when it
\* has exactly two fields; with fewer or with more than two fields the
\* result is Protocol.
C11_AckExactlyTwoFields ==
    (AckFrameRead /\ Len(DevCmd.fields) # 2) => r_res = GErr("Protocol")

\* C11 as amended: a PMTK001 frame with fewer than two fields is rejected
\* with Protocol; a frame with two or more fields is decided by its first
\* two fields alone, so an ack echoing the number with status '3' is
\* accepted whatever follows the status.
C11_AckAtLeastTwoFields ==
    AckFrameRead =>
      /\ Len(DevCmd.fields) < 2 => r_res = GErr("Protocol")
      /\ (/\ Len(DevCmd.fields) >= 2
          /\ DevCmd.fields[1] = op.for_num
          /\ DevCmd.fields[2] = <<51>>) => r_res = [tag |-> "Ok"]

C11_Witness ==
    /\ r_pc = "done" /\ op.fn = "read_pmtk_ack_raw"
    /\ dev_frame = serialize(PMTK001, <<N604, <<51>>, <<57>>>>)
    /\ r_res = [tag |-> "Ok"]
    /\ ring = <<>> /\ junk = <<>> /\ slept = 0

-----------------------------------------------------------------------------
(* The command functions. *)

\* The frames on the wire, byte by byte.
Frame314 ==
    <<DOLLAR>> \o PMTK \o <<51, 49, 52>> \o
    <<COMMA, ZERO, COMMA, ZERO, COMMA, ZERO, COMMA, ZERO, COMMA, ZERO,
      COMMA, ZERO, COMMA, ZERO, COMMA, ZERO, COMMA, ZERO, COMMA, ZERO,
      COMMA, ZERO, COMMA, ZERO, COMMA, ZERO, COMMA, ZERO, COMMA, ZERO,
      COMMA, ZERO, COMMA, ZERO, COMMA, ZERO, COMMA, ZERO>> \o
    <<STAR, 50, 56, CR, LF>>
Frame184 == <<DOLLAR>> \o PMTK \o <<49, 56, 52, COMMA, 49, STAR, 50, 50, CR, LF>>
Frame183 == <<DOLLAR>> \o PMTK \o <<49, 56, 51, STAR, 51, 56, CR, LF>>
Frame605 == <<DOLLAR>> \o PMTK \o <<54, 48, 53, STAR, 51, 49, CR, LF>>
Frame101 == <<DOLLAR>> \o PMTK \o <<49, 48, 49, STAR, 51, 50, CR, LF>>
Ack314 == <<DOLLAR>> \o PMTK \o
          <<48, 48, 49, COMMA, 51, 49, 52, COMMA, 51, STAR, 51, 54, CR, LF>>

\* The budget of the with_retries that is running.
Budget ==
    IF phase = "cmd" THEN MAX_CMD_TRIES
    ELSE IF phase = "nmea" THEN MAX_CMD_TRIES_WITHOUT_NMEA_DISABLED
    ELSE MAX_READ_SPURIOUS_AFTER_BOOT_READY

\* C12 as claimed: with_retries(max_tries, op) invokes op at most
\* max_tries times: at most MAX_CMD_TRIES writes of the command frame by
\* send_mtk_cmd and send_mtk_cmd_for_reply, at most
\* MAX_CMD_TRIES_WITHOUT_NMEA_DISABLED writes of PMTK314, at most
\* MAX_READ_SPURIOUS_AFTER_BOOT_READY writes of PMTK605.
C12_AtMostMaxTries ==
    phase \in {"cmd", "nmea", "ready"} => tx_count <= Budget

\* send_mtk_cmd has returned after running the retry loop of its command,
\* and every failed attempt of that loop failed with a retryable error.
SendMtkCmdLoopDone ==
    /\ g_pc = "done"
    /\ g_call.fn = "send_mtk_cmd"
    /\ tx_frame = Frame184
    /\ only_retryable

\* C13 as claimed: when the first N-1 write+ack attempts of send_mtk_cmd
\* fail with a retryable error and the N-th succeeds, send_mtk_cmd returns
\* Ok only if N <= MAX_CMD_TRIES, and when it returns the error it has made
\* exactly MAX_CMD_TRIES + 1 attempts.
C13_RetryBound ==
    SendMtkCmdLoopDone =>
        IF g_res.tag = "Ok" THEN tx_count <= MAX_CMD_TRIES
        ELSE tx_count = MAX_CMD_TRIES + 1

\* C14 as claimed: the retry loop of send_mtk_cmd and
\* send_mtk_cmd_for_reply makes no further attempt after an attempt that
\* ended in GpsSaysInvalidCommand, GpsSaysUnsupportedCommand,
\* GpsSaysActionFailed or Transmit: it never reaches its retry delay with
\* such an error.
C14_NoRetryAfterVerdict ==
    (g_pc = "delay" /\ phase = "cmd") =>
        op_res.err \notin {"GpsSaysInvalidCommand", "GpsSaysUnsupportedCommand",
                           "GpsSaysActionFailed", "Transmit"}

Ack184 == <<DOLLAR>> \o PMTK \o
          <<48, 48, 49, COMMA, 49, 56, 52, COMMA, 51, STAR, 51, 68, CR, LF>>
Foo == <<102, 111, 111, CR, LF>>

\* This step ends a run of with_retries' closure.
AttemptEnds ==
    \/ g_pc = "write" /\ g_pc' # "read"
    \/ g_pc = "read" /\ g_pc' # "read"

\* C15: in send_mtk_cmd's retry loop, an attempt that fails with Protocol,
\* Parse, ReadTimeout or WriteTimeout while fewer than MAX_CMD_TRIES
\* attempts were made is followed by one sleep of 80000 us and then by a
\* write of the identical frame; the reply "foo\r\n" followed by the
\* status-3 ack gives two writes and Ok; nothing is slept after a
\* successful attempt or after the last failed one.
C15_RetryDelay ==
    [][(phase = "cmd" /\ g_call.fn = "send_mtk_cmd") =>
         /\ (/\ AttemptEnds
             /\ op_res'.tag = "Err"
             /\ op_res'.err \in {"Protocol", "Parse", "ReadTimeout",
                                 "WriteTimeout"}
             /\ tx_count' < MAX_CMD_TRIES) => g_pc' = "delay"
         /\ (g_pc = "read" /\ r_pc = "done" /\ seen = Foo
             /\ tx_count = 1) =>
                /\ op_res' = GErrParse("ExpectedPrefix")
                /\ g_pc' = "delay"
         /\ (g_pc = "delay" /\ g_pc' # "delay") =>
                /\ g_pc' = "write"
                /\ retry_slept' = retry_slept + 80000
                /\ tx_count' = tx_count
         /\ g_pc' = g_pc => retry_slept' = retry_slept
         /\ (g_pc = "write" /\ tx_count >= 1) =>
                /\ tx_frame' = tx_frame
                /\ tx_count' = tx_count + 1
         /\ AttemptEnds /\ g_pc' # "delay" => retry_slept' = retry_slept
         /\ (g_pc = "read" /\ r_pc = "done" /\ seen = Ack184
             /\ tx_frame = Frame184 /\ tx_count = 2) =>
                /\ g_pc' = "done"
                /\ g_res' = [tag |-> "Ok"]
                /\ retry_slept' = 80000
         /\ g_pc' = "done" => retry_slept' = 80000 * (tx_count' - 1)
      ]_vars

C15_Witness ==
    /\ g_pc = "done" /\ g_call.fn = "send_mtk_cmd"
    /\ g_res = [tag |-> "Ok"]
    /\ tx_frame = Frame184 /\ tx_count = 2 /\ retry_slept = 80000
    /\ op_res = [tag |-> "Ok"] /\ only_retryable
    /\ already_disabled_nmea_output /\ ring = <<>> /\ dev_pending = <<>>

\* This step is the entry of a public function.
CallStep ==
    /\ g_pc \in {"idle", "done"}
    /\ <<g_call, ctlVars, tx_frame>>' # <<g_call, ctlVars, tx_frame>>

\* C16: PMTK314 is written only while disabled_nmea_output is false; the
\* flag is true once a PMTK314 was acknowledged with status 3 and stays
\* true until a reboot attempt starts, so no later command writes PMTK314;
\* ensure_nmea_output_disabled called with the flag true returns Ok and
\* writes and reads nothing.
C16_Nmea314OnlyWhileFalse ==
    [][/\ (g_pc = "write" /\ g_pc' # "write" /\ tx_frame' = Frame314) =>
              ~disabled_nmea_output
       /\ (g_pc = "read" /\ phase = "nmea" /\ r_pc = "done"
           /\ seen = Ack314) => disabled_nmea_output'
       /\ (disabled_nmea_output /\ g_pc # "rb_attempt") =>
              disabled_nmea_output'
       /\ (/\ CallStep
           /\ g_call'.fn = "ensure_nmea_output_disabled"
           /\ disabled_nmea_output) =>
              /\ g_pc' = "done"
              /\ g_res' = [tag |-> "Ok"]
              /\ tx_count' = 0
              /\ tx_frame' = <<>>
              /\ r_pc' = "idle"
              /\ ring' = ring
      ]_vars

C16_Witness ==
    /\ g_pc = "done" /\ g_call.fn = "send_mtk_cmd"
    /\ g_res = [tag |-> "Ok"]
    /\ ~already_disabled_nmea_output /\ disabled_nmea_output
    /\ tx_frame = Frame184 /\ tx_count = 1
    /\ ring = <<>> /\ dev_pending = <<>>

\* C17: disabled_nmea_output starts at the value given to Gps::new; it
\* turns from false to true only in the step that accepts the ack
\* PMTK001,314,3, from true to false only at the start of a reboot
\* attempt, and it is false after every failed attempt of PMTK314.
C17_FlagLifecycle ==
    /\ [](g_call.fn = "none" =>
              disabled_nmea_output = already_disabled_nmea_output)
    /\ [][/\ (~disabled_nmea_output /\ disabled_nmea_output') =>
                 /\ g_pc = "read" /\ phase = "nmea"
                 /\ r_pc = "done" /\ seen = Ack314
          /\ (disabled_nmea_output /\ ~disabled_nmea_output') =>
                 g_pc = "rb_attempt"
          /\ (phase = "nmea" /\ AttemptEnds /\ op_res'.tag = "Err") =>
                 ~disabled_nmea_output'
         ]_vars

C17_Witness ==
    /\ g_pc = "done" /\ g_call.fn = "ensure_nmea_output_disabled"
    /\ g_res = [tag |-> "Ok"]
    /\ ~already_disabled_nmea_output /\ disabled_nmea_output
    /\ tx_frame = Frame314 /\ tx_count = 1
    /\ ring = <<>> /\ dev_pending = <<>>

RebootOrder == <<"clear_flag", "write_reboot", "boot_indicators",
                 "check_ready", "ensure_nmea">>

IsPrefix(s, t) == Len(s) <= Len(t) /\ \A i \in 1..Len(s) : s[i] = t[i]

InReboot == g_call.fn = "send_reboot_cmd"

RebootOk == InReboot /\ g_pc = "done" /\ g_res = [tag |-> "Ok"]

C19_NothingWrittenAfter705 ==
    (RebootOk /\ already_disabled_nmea_output) => tx_frame = Frame605

\* A failed step of a reboot attempt is followed by a write of the reboot
\* frame; a failed readiness check with tries left re-sends PMTK605 only.
RebootRestartsSequence ==
    [][InReboot =>
          /\ (g_pc \in {"boot", "write", "read"} /\ g_pc' = "rb_delay") =>
                op_res'.tag = "Err"
          /\ (g_pc = "rb_delay" /\ g_pc' # "rb_delay") =>
                g_pc' = "rb_attempt"
          /\ (g_pc = "rb_attempt" /\ g_pc' # "rb_attempt") =>
                /\ tx_frame' = Frame101
                /\ rb_tx_count' = rb_tx_count + 1
          /\ (phase = "ready" /\ g_pc = "delay" /\ g_pc' # "delay") =>
                /\ g_pc' = "write"
                /\ rb_tx_count' = rb_tx_count
          /\ (phase = "ready" /\ g_pc = "write" /\ g_pc' # "write") =>
                /\ tx_frame' = Frame605
                /\ rb_tx_count' = rb_tx_count
       ]_vars

\* C20: a failed step of a reboot attempt makes the next attempt write the
\* reboot frame again, the sequence is attempted at most MAX_CMD_TRIES
\* times, and a failed readiness check with inner tries left re-sends
\* PMTK605 only, not the reboot frame.
C20_RebootAtMostMaxTries ==
    /\ [](InReboot => rb_tx_count <= MAX_CMD_TRIES)
    /\ RebootRestartsSequence

(* wait_for_boot. *)

Boot010 == <<DOLLAR>> \o PMTK \o
           <<48, 49, 48, COMMA, 48, 48, 49, STAR, 50, 69, CR, LF>>
Boot010Other == <<DOLLAR>> \o PMTK \o
                <<48, 49, 48, COMMA, 48, 48, 50, STAR, 50, 68, CR, LF>>
Boot011 == <<DOLLAR>> \o PMTK \o
           <<48, 49, 49, COMMA, 77, 84, 75, 71, 80, 83, STAR, 48, 56, CR, LF>>

\* wait_for_boot's read_cmd_raw returns in this step.
BootReadReturns == g_pc = "boot_read" /\ r_pc = "done"

BothIndicators == seen_boot_sys_msg /\ seen_mtkgps

\* C21: wait_for_boot leaves its reading loop successfully exactly when it
\* has read both $PMTK010,001 and $PMTK011,MTKGPS, in either order and
\* with other frames in between; $PMTK010,002 is an unrecognized frame and
\* no indicator.
C21_BothBootIndicators ==
    [][InReboot =>
         /\ (g_pc = "boot" /\ g_pc' = "flush") => BothIndicators
         /\ (g_pc = "boot" /\ BothIndicators) => g_pc' = "flush"
         /\ (~seen_boot_sys_msg /\ seen_boot_sys_msg') =>
                BootReadReturns /\ seen = Boot010
         /\ (~seen_mtkgps /\ seen_mtkgps') =>
                BootReadReturns /\ seen = Boot011
         /\ (BootReadReturns /\ seen = Boot010) =>
                /\ seen_boot_sys_msg'
                /\ UNCHANGED <<seen_mtkgps, read_errors, read_spurious>>
         /\ (BootReadReturns /\ seen = Boot011) =>
                /\ seen_mtkgps'
                /\ UNCHANGED <<seen_boot_sys_msg, read_errors,
                               read_spurious>>
         /\ (BootReadReturns /\ seen = Boot010Other) =>
                /\ read_spurious' = read_spurious + 1
                /\ UNCHANGED <<seen_boot_sys_msg, seen_mtkgps,
                               read_errors>>
      ]_vars

C21_Witness ==
    /\ InReboot /\ g_pc = "boot" /\ BothIndicators
    /\ read_spurious = 1 /\ read_errors = 0
    /\ rb_tx_count = 1 /\ ring = <<>> /\ dev_pending = <<>>
    /\ ~already_disabled_nmea_output

\* What wait_for_boot tolerates: reads are started only while neither count
\* exceeds its limit, a count over its limit before both indicators gives
\* BootFailed, and a read adds to at most one of the counts.
BootLimits ==
    /\ [](InReboot =>
            /\ g_pc \in {"boot", "boot_read"} =>
                  /\ read_errors <= MAX_READ_ERRORS_ON_BOOT + 1
                  /\ read_spurious <= MAX_READ_SPURIOUS_BEFORE_BOOT + 1
            /\ g_pc = "boot_read" =>
                  /\ read_errors <= MAX_READ_ERRORS_ON_BOOT
                  /\ read_spurious <= MAX_READ_SPURIOUS_BEFORE_BOOT)
    /\ [][InReboot =>
            /\ (/\ g_pc = "boot" /\ ~BothIndicators
                /\ \/ read_errors > MAX_READ_ERRORS_ON_BOOT
                   \/ read_spurious > MAX_READ_SPURIOUS_BEFORE_BOOT) =>
                  /\ g_pc' \in {"rb_delay", "done"}
                  /\ g_pc' = "rb_delay" =>
                        op_res' = [tag |-> "Err", err |-> "BootFailed"]
                  /\ g_pc' = "done" =>
                        g_res' = [tag |-> "Err", err |-> "BootFailed"]
            /\ (g_pc = "boot" /\ g_pc' \in {"rb_delay", "done"}) =>
                  \/ read_errors > MAX_READ_ERRORS_ON_BOOT
                  \/ read_spurious > MAX_READ_SPURIOUS_BEFORE_BOOT
            /\ BootReadReturns =>
                  /\ read_errors' \in {read_errors, read_errors + 1}
                  /\ read_spurious' \in {read_spurious, read_spurious + 1}
                  /\ read_errors' = read_errors
                        \/ read_spurious' = read_spurious
                  /\ r_res.tag = "Err" <=> read_errors' # read_errors
         ]_vars

\* Every read of the loop adds to a count or sets an indicator that was
\* not set.
BootReadsProgress ==
    [][(InReboot /\ BootReadReturns) =>
          \/ read_errors' > read_errors
          \/ read_spurious' > read_spurious
          \/ ~seen_boot_sys_msg /\ seen_boot_sys_msg'
          \/ ~seen_mtkgps /\ seen_mtkgps'
      ]_vars

Frame187_5 == <<DOLLAR>> \o PMTK \o
              <<49, 56, 55, COMMA, 49, COMMA, 53, STAR, 51, 56, CR, LF>>
Frame187_10 == <<DOLLAR>> \o PMTK \o
               <<49, 56, 55, COMMA, 49, COMMA, 49, 48, STAR, 48, 67, CR, LF>>
Frame185_0 == <<DOLLAR>> \o PMTK \o
              <<49, 56, 53, COMMA, 48, STAR, 50, 50, CR, LF>>
Frame185_1 == <<DOLLAR>> \o PMTK \o
              <<49, 56, 53, COMMA, 49, STAR, 50, 51, CR, LF>>
Ack187 == <<DOLLAR>> \o PMTK \o
          <<48, 48, 49, COMMA, 49, 56, 55, COMMA, 51, STAR, 51, 69, CR, LF>>
Ack185 == <<DOLLAR>> \o PMTK \o
          <<48, 48, 49, COMMA, 49, 56, 53, COMMA, 51, STAR, 51, 67, CR, LF>>

\* The frame the logger command called has to write, and the ack it needs.
LoggerFrame ==
    IF g_call.api = "configure_logger_interval"
    THEN (IF g_call.secs = 5 THEN Frame187_5 ELSE Frame187_10)
    ELSE IF g_call.api = "erase_logs" THEN Frame184
    ELSE IF g_call.api = "start_logging" THEN Frame185_0
    ELSE Frame185_1

LoggerAck ==
    IF g_call.api = "configure_logger_interval" THEN Ack187
    ELSE IF g_call.api = "erase_logs" THEN Ack184
    ELSE Ack185

\* C23: with NMEA output disabled, every attempt of
\* configure_logger_interval(secs), erase_logs, start_logging and
\* stop_logging writes one frame, PMTK187,1,<secs>, PMTK184,1, PMTK185,0
\* and PMTK185,1 respectively, and the function returns Ok exactly when
\* the reply read in that attempt is the PMTK001 ack of its number with
\* status 3.
C23_LoggerCommands ==
    [][(g_call.fn = "send_mtk_cmd" /\ phase = "cmd") =>
         /\ disabled_nmea_output
         /\ (g_pc = "write" /\ g_pc' # "write") =>
                /\ tries' = tries + 1
                /\ tx_count' = tx_count + 1
                /\ tx_frame' = LoggerFrame
         /\ g_pc # "write" => UNCHANGED <<tx_count, tx_frame, tries>>
         /\ (g_pc = "read" /\ g_pc' # "read") =>
                ((g_pc' = "done" /\ g_res' = [tag |-> "Ok"])
                   <=> (r_pc = "done" /\ seen = LoggerAck))
         /\ (g_pc' = "done" /\ g_res'.tag = "Ok") => g_pc = "read"
      ]_vars

C23_Witness ==
    /\ g_pc = "done" /\ g_call = configure_logger_interval(10)
    /\ g_res = [tag |-> "Ok"]
    /\ tx_frame = Frame187_10 /\ tx_count = 1
    /\ already_disabled_nmea_output /\ disabled_nmea_output
    /\ ring = <<>> /\ dev_pending = <<>>

(* logger_status. *)

AllDigits(f) == f # <<>> /\ \A i \in 1..Len(f) : f[i] \in 48..57

\* A decimal number, with or without a leading '+'.
IsNumber(f) == AllDigits(f) \/ (f # <<>> /\ Head(f) = 43 /\ AllDigits(Tail(f)))

\* The digits of the number f, without sign and leading zeros.
Canonical(f) == strip_zeros(IF Head(f) = 43 THEN Tail(f) ELSE f)

FitsU32(f) == ~digits_gt(Canonical(f), <<52, 50, 57, 52, 57, 54, 55, 50, 57, 53>>)

IsPercent(f) ==
    /\ IsNumber(f)
    /\ Len(Canonical(f)) <= 3
    /\ digits_value(Canonical(f)) <= 100

FnReturned == p_out # [tag |-> "None"]

\* C24: logger_status sends PMTK183 without fields and asks for a PMTKLOG
\* reply of at least 10 fields; from such a reply it returns interval =
\* field 4 and record_count = field 8 as numbers, is_on = TRUE for field 7
\* "0" and FALSE for "1", percent_full = field 9; a field 7 other than "0"
\* and "1", a field 4 or 8 that is no number, or a field 9 that is no
\* integer in 0..100 gives Parse(ParseField); nothing else is returned.
C24_LoggerStatus ==
    /\ \A c \in GpsCalls : c.fn = "send_mtk_cmd_for_reply" =>
          /\ serialize(closure_frame(c, "cmd").name,
                       closure_frame(c, "cmd").fields) = Frame183
          /\ closure_read(c, "cmd") =
                [fn |-> "read_reply_raw",
                 name |-> PMTK \o <<76, 79, 71>>, min_fields |-> 10]
    /\ (p_fn = "logger_status" /\ FnReturned) =>
          /\ Len(p_in) >= 10
          /\ (/\ IsNumber(p_in[5]) /\ FitsU32(p_in[5])
              /\ p_in[8] \in {<<48>>, <<49>>}
              /\ IsNumber(p_in[9]) /\ FitsU32(p_in[9])
              /\ IsPercent(p_in[10])) =>
                 p_out = [tag |-> "Ok",
                          interval |-> Canonical(p_in[5]),
                          is_on |-> (p_in[8] = <<48>>),
                          record_count |-> Canonical(p_in[9]),
                          percent_full |-> digits_value(Canonical(p_in[10]))]
          /\ (\/ ~IsNumber(p_in[5])
              \/ p_in[8] \notin {<<48>>, <<49>>}
              \/ ~IsNumber(p_in[9])
              \/ ~IsPercent(p_in[10])) =>
                 p_out = [tag |-> "Err", err |-> "Parse",
                          cause |-> "ParseField"]
          /\ \/ p_out = [tag |-> "Err", err |-> "Parse",
                         cause |-> "ParseField"]
             \/ /\ p_out.tag = "Ok"
                /\ p_out.percent_full \in 0..100
                /\ p_out.is_on \in BOOLEAN

C24_Witness ==
    /\ p_fn = "logger_status"
    /\ p_in = <<<<52, 53, 54>>, <<48>>, <<49, 49>>, <<51, 49>>, <<50>>, <<48>>, <<48>>, <<48>>,
                <<51, 55, 54, 57>>, <<52, 54>>>>
    /\ p_out = [tag |-> "Ok", interval |-> <<50>>, is_on |-> TRUE,
                record_count |-> <<51, 55, 54, 57>>, percent_full |-> 46]

(* Logged points. *)

\* A chunk parse_data_fields cannot decode.
BadChunk(c) == Len(c) # 8 \/ \E j \in 1..Len(c) : c[j] \notin AnyHex

\* The 16 bytes the chunks 4k-3..4k of fs stand for.
GroupBytes(fs, k) ==
    [i \in 1..16 |->
        LET c == fs[4 * (k - 1) + ((i - 1) \div 4) + 1]
            j == 2 * ((i - 1) % 4) + 1
        IN  16 * HexValue(c[j]) + HexValue(c[j + 1])]

FirstBad(fs) ==
    LET bad == {i \in 1..Len(fs) : BadChunk(fs[i])}
    IN  IF bad = {} THEN 0 ELSE CHOOSE i \in bad : \A j \in bad : i <= j

\* C27: parse_data_fields returns InvalidFieldCount and emits nothing when
\* the number of chunks is not divisible by 4; otherwise it takes the
\* chunks in groups of 4, in order, emits one point per decoded group and
\* stops at the first chunk that is not 8 characters long
\* (InvalidFieldLength) or not hex (HexDecode), having emitted the points
\* of the groups before the group of that chunk and no other.
C27_ParseDataFields ==
    (p_fn = "parse_data_fields" /\ FnReturned) =>
        IF Len(p_in) % 4 # 0
        THEN p_out = [res |-> [tag |-> "Err", err |-> "InvalidFieldCount"],
                      points |-> <<>>]
        ELSE LET first == FirstBad(p_in)
                 groups == IF first = 0 THEN Len(p_in) \div 4
                           ELSE (first - 1) \div 4
             IN  /\ p_out.res =
                        IF first = 0 THEN [tag |-> "Ok"]
                        ELSE IF Len(p_in[first]) # 8
                        THEN [tag |-> "Err", err |-> "InvalidFieldLength"]
                        ELSE [tag |-> "Err", err |-> "HexDecode"]
                 /\ p_out.points =
                        [k \in 1..groups |->
                            [temp_checksum |->
                                XorOfBytes(GroupBytes(p_in, k))]]

C27_Witness ==
    /\ p_fn = "parse_data_fields"
    /\ p_in = <<<<48, 48, 48, 48, 48, 48, 48, 49>>, <<48, 48, 48, 48, 48, 48, 48, 49>>, <<48, 48, 48, 48, 48, 48, 48, 49>>, <<48, 97, 49, 66, 50, 99, 51, 68>>,
                <<48, 48, 48, 48, 48, 48, 48, 49>>, <<48, 48, 48, 48, 48, 48, 48, 49>>, <<48, 48, 48, 48, 48, 48, 48, 71>>, <<48, 48, 48, 48, 48, 48, 48>>>>
    /\ p_out = [res |-> [tag |-> "Err", err |-> "HexDecode"],
                points |-> <<[temp_checksum |-> 1]>>]

\* C29: parse_point returns no error: for every 16 bytes it returns the
\* point whose temp_checksum is the XOR of the 16 bytes, which is 0
\* exactly for a valid per-point checksum; parse_data_fields emits the
\* point of a decoded group whatever its XOR is.
C29_ParsePoint ==
    /\ (p_fn = "parse_point" /\ FnReturned) =>
          /\ Len(p_in) = 16
          /\ p_out = [tag |-> "Ok",
                      point |-> [temp_checksum |-> XorOfBytes(p_in)]]
    /\ (p_fn = "parse_data_fields" /\ FnReturned /\ p_out.res.tag = "Ok") =>
          /\ Len(p_out.points) = Len(p_in) \div 4
          /\ \A k \in 1..Len(p_out.points) :
                p_out.points[k].temp_checksum =
                    XorOfBytes(GroupBytes(p_in, k))

C29_Witness ==
    /\ p_fn = "parse_point"
    /\ p_in = <<128>> \o [i \in 1..7 |-> 85] \o <<1>> \o [i \in 1..6 |-> 85]
              \o <<255>>
    /\ p_out = [tag |-> "Ok", point |-> [temp_checksum |-> 43]]

-----------------------------------------------------------------------------
(* The sectors of the logger's flash. *)

SectorParsed == p_fn = "parse_sector" /\ p_out # NoResult

\* Word k of the sector, little-endian.
HeaderWord(k) == p_in[2 * k + 1] + 256 * p_in[2 * k + 2]

HeaderXor ==
    Xor(HeaderWord(0), Xor(HeaderWord(1), Xor(HeaderWord(2),
        Xor(HeaderWord(3), Xor(HeaderWord(4),
            Xor(HeaderWord(5), HeaderWord(6)))))))

HeaderChecksumOk == HeaderWord(7) = HeaderXor

\* C30: a sector whose header bytes 14..16 differ from the XOR of the seven
\* words of its bytes 0..14 emits no packet and adds one to invalid_sectors;
\* a sector with a valid header checksum and packet count 0 emits no packet
\* and adds one to empty_sectors; no sector adds to both.
C30_SectorHeaderChecksum ==
    SectorParsed =>
        /\ ~HeaderChecksumOk =>
               /\ p_out.packets = <<>>
               /\ p_out.stats.invalid_sectors = 1
               /\ p_out.stats.empty_sectors = 0
        /\ (HeaderChecksumOk /\ packet_count(Slice(p_in, 0, HEADER_SIZE)) = 0) =>
               /\ p_out.packets = <<>>
               /\ p_out.stats.empty_sectors = 1
               /\ p_out.stats.invalid_sectors = 0
        /\ p_out.stats.invalid_sectors + p_out.stats.empty_sectors <= 1

\* A sector whose checksum bytes are the right ones swapped, with packets
\* marked in its bitmap, was counted as invalid.
C30_Witness ==
    /\ SectorParsed
    /\ HeaderWord(7) = (HeaderXor % 256) * 256 + HeaderXor \div 256
    /\ ~HeaderChecksumOk
    /\ packet_count(Slice(p_in, 0, HEADER_SIZE)) > 0
    /\ p_out.stats.invalid_sectors = 1

\* A sector with a valid header and packets in it hands them on.
C30_SomePackets ==
    SectorParsed /\ Len(p_out.packets) > 0 /\ p_out.stats.invalid_packets > 0

C30_Panics == SectorParsed /\ p_out.panicked

-----------------------------------------------------------------------------
(* read_logs. *)

InReadLogs == g_call.fn = "read_logs"
ReadLogsReturned == InReadLogs /\ g_pc = "done"
Frame622 == <<36, 80, 77, 84, 75, 54, 50, 50, 44, 48, 42, 50, 56, 13, 10>>
NameLox == <<80, 77, 84, 75, 76, 79, 88>>

\* The frame f, as read_cmd_raw returned it, is a PMTKLOX frame of kind k
\* (one character) with at least a second field.
IsLox(f, k) ==
    /\ f.tag = "Ok"
    /\ f.name = NameLox
    /\ Len(f.fields) >= 2
    /\ f.fields[1] = <<k>>

\* The number in the second field of the frame f, -1 if it is none.
LoxNumber(f) ==
    IF IsNumber(f.fields[2]) /\ FitsU32(f.fields[2])
    THEN digits_value(Canonical(f.fields[2]))
    ELSE -1

\* The frames fs are a start frame announcing N, N data frames numbered
\* 0..N-1 and an end frame.
WholeDump(fs) ==
    /\ Len(fs) >= 2
    /\ IsLox(fs[1], 48)
    /\ LoxNumber(fs[1]) = Len(fs) - 2
    /\ \A i \in 2..(Len(fs) - 1) : IsLox(fs[i], 49) /\ LoxNumber(fs[i]) = i - 2
    /\ IsLox(fs[Len(fs)], 50)

\* The kind read_logs expects of the frame it is reading.
ExpectedKind ==
    IF locus_stage = "start" THEN 48 ELSE IF locus_stage = "data" THEN 49 ELSE 50

\* The frame f, read now, has another name, a wrong kind, or is a data
\* frame numbered differently from the loop counter.
Misplaced(f) ==
    /\ f.tag = "Ok"
    /\ \/ f.name # NameLox
       \/ f.fields # <<>> /\ f.fields[1] # <<ExpectedKind>>
       \/ /\ locus_stage = "data"
          /\ IsLox(f, 49)
          /\ LoxNumber(f) >= 0
          /\ LoxNumber(f) # locus_n

\* read_logs takes the return of one of its reads.
LoxReadReturns == g_pc = "lox_read" /\ g_pc' # "lox_read"

OkOnlyAfterWholeDump ==
    (ReadLogsReturned /\ g_res.tag = "Ok") => WholeDump(lox_frames)

MisplacedIsProtocol ==
    [][(LoxReadReturns /\ Misplaced(r_res)) =>
          /\ g_pc' = "done"
          /\ g_res' = [tag |-> "Err", err |-> "Protocol"]
          /\ lox_frames' = Append(lox_frames, r_res)]_vars

\* C25: read_logs returns Ok only if the frames it read after writing
\* PMTK622,0 were one PMTKLOX frame of kind 0 announcing N, then N PMTKLOX
\* frames of kind 1 numbered 0..N-1 in that order, then one PMTKLOX frame
\* of kind 2; a frame of another name, of a wrong kind, or a data frame
\* whose number is not the loop counter makes it return Protocol without
\* another read.
C25_ReadLogsSequence == []OkOnlyAfterWholeDump /\ MisplacedIsProtocol

\* read_logs returned Ok after a start frame announcing 2, the data frames
\* 0 and 1 and the end frame.
C25_Witness ==
    /\ ReadLogsReturned
    /\ g_res.tag = "Ok"
    /\ Len(lox_frames) = 4
    /\ Len(on_point_calls) = 2

\* A data frame numbered 0 read when the loop counter was 1.
C25_WrongIndexSeen ==
    /\ ReadLogsReturned
    /\ Len(lox_frames) = 3
    /\ IsLox(lox_frames[2], 49) /\ LoxNumber(lox_frames[2]) = 0
    /\ IsLox(lox_frames[3], 49) /\ LoxNumber(lox_frames[3]) = 0
    /\ g_res = [tag |-> "Err", err |-> "Protocol"]

\* After its write of PMTK622,0 read_logs is at a read or has returned, and
\* has written that frame once.
OneLoxWrite ==
    (InReadLogs /\ lox_tx_count > 0) =>
        /\ lox_tx_count = 1
        /\ tx_frame = Frame622
        /\ g_pc \in {"lox", "lox_read", "done"}

\* Before it, only the PMTK314 step runs.
OnlyNmeaBefore ==
    (InReadLogs /\ lox_tx_count = 0 /\ g_pc \notin {"done", "lox_write"}) =>
        phase = "nmea"

\* A step of the call after the write.
AfterLoxWrite == InReadLogs /\ lox_tx_count > 0 /\ g_call' = g_call /\ g_pc # "done"

\* The data frame f, read now with the expected number, has chunks that
\* do not decode.
BadPoints(f) ==
    /\ locus_stage = "data"
    /\ IsLox(f, 49)
    /\ LoxNumber(f) = locus_n
    /\ LET chunks == SubSeq(f.fields, 3, Len(f.fields))
       IN  Len(chunks) % 4 # 0 \/ FirstBad(chunks) # 0

ErrorsReturnedAtOnce ==
    [][AfterLoxWrite =>
          /\ retry_slept' = retry_slept
          /\ tx_count' = tx_count
          /\ (LoxReadReturns /\ r_res.tag = "Err") =>
                 g_pc' = "done" /\ g_res' = r_res
          /\ (LoxReadReturns /\ BadPoints(r_res)) =>
                 g_pc' = "done" /\ g_res'.tag = "Err"
                 /\ g_res'.err = "ParseLoggedPoint"
          /\ (LoxReadReturns /\ g_pc' = "lox") =>
                 r_res.tag = "Ok" /\ ~Misplaced(r_res) /\ ~BadPoints(r_res)]_vars

\* C26: read_logs writes the PMTK622,0 frame at most once per call; a read
\* timeout, parse error, protocol error or point-decoding error after that
\* write is returned at once, with no retry delay and no second PMTK622
\* frame; only the PMTK314 step before it may be retried.
C26_ReadLogsNoRetry ==
    /\ []OneLoxWrite
    /\ []OnlyNmeaBefore
    /\ ErrorsReturnedAtOnce

\* read_logs retried its PMTK314 step, wrote PMTK622,0 once, and returned
\* the timeout of one of its reads.
C26_Witness ==
    /\ ReadLogsReturned
    /\ lox_tx_count = 1
    /\ retry_slept > 0
    /\ g_res = [tag |-> "Err", err |-> "ReadTimeout"]
    /\ Len(lox_frames) >= 2

\* One iteration of read_logs' loop has run.
LocusDataRan == p_fn = "read_logs_data" /\ p_out # NoResult

\* C28: one PMTKLOX data frame yields at most
\* MAX_POINTS_PER_LOCUS_DATA_PACKET points, so the number of on_point calls
\* of a read_logs call never exceeds the estimate (the announced number of
\* data frames times that maximum) it passes to on_point.
C28_PointsWithinEstimate ==
    LocusDataRan =>
        /\ p_out.locus.frame_points <= MAX_POINTS_PER_LOCUS_DATA_PACKET
        /\ \A i \in DOMAIN p_out.locus.on_point_calls :
               /\ p_out.locus.on_point_calls[i].estimate
                      = p_in.locus.packet_count
                        * MAX_POINTS_PER_LOCUS_DATA_PACKET
               /\ Len(p_out.locus.on_point_calls)
                      <= p_out.locus.on_point_calls[i].estimate

\* What holds of an iteration: a frame of at most
\* 4 * MAX_POINTS_PER_LOCUS_DATA_PACKET chunks stays within the estimate.
C28_SmallFramesWithinEstimate ==
    (LocusDataRan /\ p_in.res.tag = "Ok"
        /\ Len(p_in.res.fields) <= 2 + 4 * MAX_POINTS_PER_LOCUS_DATA_PACKET) =>
        /\ p_out.locus.frame_points <= MAX_POINTS_PER_LOCUS_DATA_PACKET
        /\ Len(p_out.locus.on_point_calls)
               <= (p_in.locus.n + 1) * MAX_POINTS_PER_LOCUS_DATA_PACKET

\* on_point was called a thirteenth time for one frame.
C28_ThirteenPoints ==
    LocusDataRan /\ p_out.locus.frame_points = 13 /\ p_out.ret = NoResult

-----------------------------------------------------------------------------
(* The bitmap of a sector's header. *)

PacketCounted == p_fn = "packet_count" /\ p_out # NoResult

\* Byte k of the header after its first 16.
Header2Byte(k) == p_in[16 + k + 1]

\* What the first n bytes of the bitmap stand for: 0 when all are 0xFF;
\* otherwise, with i the highest index of a byte b that is not 0xFF and j
\* the smallest shift in 0..8 with b >> j = 0, (i + 1) * 8 when j = 0 and
\* i * 8 + (8 - j) otherwise.
BitmapScan(n) ==
    LET used == {k \in 0..(n - 1) : Header2Byte(k) # 255}
    IN  IF used = {} THEN 0
        ELSE LET i == CHOOSE k \in used : \A m \in used : m <= k
                 b == Header2Byte(i)
                 j == CHOOSE s \in 0..8 :
                          /\ b \div (2 ^ s) = 0
                          /\ \A t \in 0..(s - 1) : b \div (2 ^ t) # 0
             IN  IF j = 0 THEN (i + 1) * 8 ELSE i * 8 + (8 - j)

C31_LastBytesIgnored ==
    /\ PacketCounted
    /\ Header2Byte(45) = 127
    /\ p_out.count = 352

-----------------------------------------------------------------------------
(* The packets of a parse run. *)

ParseRun == p_fn = "parse"

\* The data handed to the parser so far, call by call.
RunData == IF p_fn = "parse_sector" THEN <<p_in>> ELSE p_in

WholeSectors(data) ==
    [k \in 1..(Len(data) \div 4096) |->
        SubSeq(data, 4096 * (k - 1) + 1, 4096 * k)]

RECURSIVE SectorsOfCalls(_)
SectorsOfCalls(calls) ==
    IF calls = <<>> THEN <<>>
    ELSE WholeSectors(Head(calls)) \o SectorsOfCalls(Tail(calls))

WordOf(s, k) == s[2 * k + 1] + 256 * s[2 * k + 2]

SectorChecksumOk(s) ==
    WordOf(s, 7) =
        Xor(WordOf(s, 0), Xor(WordOf(s, 1), Xor(WordOf(s, 2),
            Xor(WordOf(s, 3), Xor(WordOf(s, 4),
                Xor(WordOf(s, 5), WordOf(s, 6)))))))

CountOf(s) == packet_count(SubSeq(s, 1, 64))
SizeOf(s) == packet_size(from_bits_truncate(read_u32_at(s, 4)))

\* The sectors whose packets are processed.
Counted(s) == SectorChecksumOk(s) /\ CountOf(s) > 0

\* Packet k (from 0) of sector s, and whether the XOR of its payload is its
\* last byte.
PacketAt(s, k) == SubSeq(s, 64 + k * SizeOf(s) + 1, 64 + (k + 1) * SizeOf(s))
PacketGood(s, k) ==
    XorOfBytes(SubSeq(PacketAt(s, k), 1, SizeOf(s) - 1))
        = PacketAt(s, k)[SizeOf(s)]

GoodIn(s) == Cardinality({k \in 0..(CountOf(s) - 1) : PacketGood(s, k)})

RECURSIVE SumGood(_)
SumGood(ss) ==
    IF ss = <<>> THEN 0
    ELSE (IF Counted(Head(ss)) THEN GoodIn(Head(ss)) ELSE 0)
         + SumGood(Tail(ss))

RECURSIVE SumCount(_)
SumCount(ss) ==
    IF ss = <<>> THEN 0
    ELSE (IF Counted(Head(ss)) THEN CountOf(Head(ss)) ELSE 0)
         + SumCount(Tail(ss))

RunReturned ==
    /\ \/ ParseRun
       \/ SectorParsed
    /\ ~p_out.panicked

\* C32: a packet is emitted exactly when the XOR of its payload bytes is
\* its last byte, and then adds one to packets_parsed, otherwise one to
\* invalid_packets; after a parse run the number of on_packet calls is
\* packets_parsed, and packets_parsed + invalid_packets is the sum of
\* packet_count over the sectors with a valid header and a count that is
\* not 0.
C32_PacketChecksum ==
    RunReturned =>
        /\ p_out.stats.packets_parsed = SumGood(SectorsOfCalls(RunData))
        /\ p_out.stats.invalid_packets =
               SumCount(SectorsOfCalls(RunData))
               - SumGood(SectorsOfCalls(RunData))
        /\ Len(p_out.packets) = p_out.stats.packets_parsed
        /\ p_out.stats.packets_parsed + p_out.stats.invalid_packets =
               SumCount(SectorsOfCalls(RunData))

\* Two calls, three sectors with eight packets each, of which half have a
\* wrong checksum byte, and a sector with a wrong header checksum.
C32_Witness ==
    /\ ParseRun
    /\ Len(p_in) = 2
    /\ ~p_out.panicked
    /\ p_out.stats.invalid_sectors = 1
    /\ p_out.stats.packets_parsed = 12
    /\ p_out.stats.invalid_packets = 12
    /\ Len(p_out.packets) = 12

-----------------------------------------------------------------------------
(* The fields of a packet. *)

PacketParsed == p_fn = "parse_packet" /\ p_out # NoResult

\* The flags in the order of their fields, by their bit, and the sizes of
\* the fields.
FieldBits == <<0, 1, 2, 3, 4, 5, 6, 10, 12>>
FieldSizes == <<4, 1, 4, 4, 2, 2, 2, 2, 1>>

\* The sum of the sizes of the set flags before field n (from 1).
RECURSIVE OffsetOf(_, _)
OffsetOf(flags, n) ==
    IF n <= 1 THEN 0
    ELSE OffsetOf(flags, n - 1)
         + (IF FieldBits[n - 1] \in flags THEN FieldSizes[n - 1] ELSE 0)

Payload == SubSeq(p_in.data, 1, Len(p_in.data) - 1)
Flags == p_in.header.content_flags
FlagSet(n) == FieldBits[n] \in Flags

ByteAt(off) == Payload[off + 1]
Word16At(off) == ByteAt(off) + 256 * ByteAt(off + 1)
Word32At(off) == [hi |-> Word16At(off + 2), lo |-> Word16At(off)]
Signed16At(off) ==
    IF Word16At(off) >= 32768 THEN Word16At(off) - 65536 ELSE Word16At(off)

\* Which fields of the packet fail validation: the fix pattern, the
\* latitude and the longitude (every u32 is a timestamp).
FixFails == FlagSet(2) /\ ~fix_of(ByteAt(OffsetOf(Flags, 2))).some
LatFails == FlagSet(3) /\ ~f32_within(Word32At(OffsetOf(Flags, 3)), 17076)
LonFails == FlagSet(4) /\ ~f32_within(Word32At(OffsetOf(Flags, 4)), 17204)

Present(v) == [some |-> TRUE, val |-> v]
Absent == [some |-> FALSE]

\* C33: each field whose flag is set is read at the sum of the sizes of the
\* set flags before it; a clear flag consumes nothing and leaves its field
\* absent; a field that fails validation consumes its bytes, is absent
\* and adds one to invalid_fields, and the packet is emitted; the bytes
\* consumed are packet_size - 1, for every set of the nine flags.
C33_FieldOffsets ==
    (PacketParsed /\ p_out.ok) =>
        /\ p_out.packet.time =
               IF FlagSet(1) THEN Present(Word32At(OffsetOf(Flags, 1)))
               ELSE Absent
        /\ p_out.packet.fix =
               IF FlagSet(2) /\ ~FixFails
               THEN fix_of(ByteAt(OffsetOf(Flags, 2))) ELSE Absent
        /\ p_out.packet.lat =
               IF FlagSet(3) /\ ~LatFails
               THEN Present(Word32At(OffsetOf(Flags, 3))) ELSE Absent
        /\ p_out.packet.lon =
               IF FlagSet(4) /\ ~LonFails
               THEN Present(Word32At(OffsetOf(Flags, 4))) ELSE Absent
        /\ p_out.packet.height =
               IF FlagSet(5) THEN Present(Signed16At(OffsetOf(Flags, 5)))
               ELSE Absent
        /\ p_out.packet.speed =
               IF FlagSet(6) THEN Present(Signed16At(OffsetOf(Flags, 6)))
               ELSE Absent
        /\ p_out.packet.heading =
               IF FlagSet(7) THEN Present(Word16At(OffsetOf(Flags, 7)))
               ELSE Absent
        /\ p_out.packet.hdop =
               IF FlagSet(8) THEN Present(Word16At(OffsetOf(Flags, 8)))
               ELSE Absent
        /\ p_out.packet.num_sat =
               IF FlagSet(9) THEN Present(ByteAt(OffsetOf(Flags, 9)))
               ELSE Absent
        /\ p_out.invalid_fields =
               (IF FixFails THEN 1 ELSE 0) + (IF LatFails THEN 1 ELSE 0)
               + (IF LonFails THEN 1 ELSE 0)
        /\ p_out.addr = OffsetOf(Flags, 10)
        /\ p_out.addr = p_in.header.packet_size - 1

\* All nine flags set, bytes that all differ: the heading is read after
\* the speed, at 17, and the packet's 22 bytes are consumed.
C33_Witness ==
    /\ PacketParsed
    /\ p_out.ok
    /\ Flags = {0, 1, 2, 3, 4, 5, 6, 10, 12}
    /\ Payload = [i \in 1..22 |-> (i * 37 + 11) % 256]
    /\ p_out.packet.speed = Present(Signed16At(15))
    /\ p_out.packet.heading = Present(Word16At(17))
    /\ p_out.packet.speed # p_out.packet.heading
    /\ p_out.addr = 22

\* A latitude over 90 is absent and counted, and the longitude after it is
\* read.
C33_InvalidLatitude ==
    /\ PacketParsed
    /\ p_out.ok
    /\ LatFails
    /\ ~LonFails
    /\ FlagSet(4)
    /\ p_out.packet.lat = Absent
    /\ p_out.packet.lon.some
    /\ p_out.invalid_fields = 1

-----------------------------------------------------------------------------
(* The statistics of a parser over its calls. *)

ProcessedSectors ==
    Cardinality({k \in 1..Len(SectorsOfCalls(p_in)) :
                    Counted(SectorsOfCalls(p_in)[k])})

\* C34: after any sequence of parse calls on one Parser, sector_count is
\* the number of complete 4096-byte sectors of all the calls (the start of
\* one more at the end of the data is not counted), and sector_count =
\* invalid_sectors + empty_sectors + the number of sectors whose packets
\* were processed.
C34_SectorCountAccumulates ==
    (ParseRun /\ ~p_out.panicked) =>
        /\ p_out.stats.sector_count = Len(SectorsOfCalls(p_in))
        /\ p_out.stats.sector_count =
               p_out.stats.invalid_sectors + p_out.stats.empty_sectors
               + ProcessedSectors

\* What holds: sector_count is the number of complete sectors of the last
\* call, and the other three add up to those of all the calls.
C34_SectorCountOfLastCall ==
    (ParseRun /\ ~p_out.panicked /\ p_in # <<>>) =>
        /\ p_out.stats.sector_count = Len(p_in[Len(p_in)]) \div 4096
        /\ Len(SectorsOfCalls(p_in)) =
               p_out.stats.invalid_sectors + p_out.stats.empty_sectors
               + ProcessedSectors

\* Two calls with one sector each, and sector_count is 1.
C34_TwoCallsOneCounted ==
    /\ ParseRun
    /\ Len(p_in) = 2
    /\ Len(p_in[1]) = 4096
    /\ Len(p_in[2]) = 4096
    /\ p_out.stats.sector_count = 1
    /\ p_out.stats.invalid_sectors + p_out.stats.empty_sectors
           + ProcessedSectors = 2

-----------------------------------------------------------------------------
(* The slices of a sector. *)

\* C35: for every 4096-byte sector with a valid header checksum, every
\* packet slice parse_sector takes lies inside the sector:
\* 64 + packet_count * packet_size <= 4096 for every bitmap and every
\* content-flag value, so parse never indexes past the end of the sector.
C35_SlicesInsideSector ==
    (SectorParsed /\ SectorChecksumOk(p_in)) =>
        /\ 64 + CountOf(p_in) * SizeOf(p_in) <= 4096
        /\ ~p_out.panicked

\* What holds: the loop panics exactly when the packets the bitmap counts
\* do not fit, after the packets that do fit were handed on.
C35_PanicsWhenOverfull ==
    (SectorParsed /\ SectorChecksumOk(p_in) /\ CountOf(p_in) > 0) =>
        /\ p_out.panicked <=> 64 + CountOf(p_in) * SizeOf(p_in) > 4096
        /\ p_out.panicked =>
               p_out.stats.packets_parsed + p_out.stats.invalid_packets
                   = (4096 - 64) \div SizeOf(p_in)

\* A bitmap of 44 zero bytes with packets of 18 bytes: 224 packets are
\* read and the slice of the next one ends past the sector.
C35_OverfullSector ==
    /\ SectorParsed
    /\ SectorChecksumOk(p_in)
    /\ CountOf(p_in) = 352
    /\ SizeOf(p_in) = 18
    /\ p_out.panicked
    /\ p_out.stats.packets_parsed + p_out.stats.invalid_packets = 224

-----------------------------------------------------------------------------
(* Acks that were readable before the frame was written. *)

\* An attempt of send_mtk_cmd's command has read its ack: the call returns
\* Ok.
AckAccepted ==
    /\ g_call.fn = "send_mtk_cmd"
    /\ phase = "cmd"
    /\ g_pc = "read"
    /\ r_pc = "done"
    /\ r_res = [tag |-> "Ok"]

\* C36 as stated: whenever send_mtk_cmd returns Ok, the ack it accepted was
\* emitted by the device in response to a frame written during that call:
\* an ack that was in the ring already, from an earlier call or an earlier
\* attempt, is never accepted as the reply to the current attempt.
C36_NoStaleAck == AckAccepted => ring_at_write = <<>>

\* C36: whenever send_mtk_cmd returns Ok, the frame its attempt read is
\* the PMTK001 ack of its number with status 3, taken by its name and
\* number alone: when bytes were readable at the attempt's write, it is
\* the frame those bytes start with, and otherwise one that arrived
\* after the write.
C36_OldestAckAccepted ==
    AckAccepted =>
        /\ seen = LoggerAck
        /\ ring_at_write # <<>> =>
               /\ Len(ring_at_write) >= Len(seen)
               /\ SubSeq(ring_at_write, 1, Len(seen)) = seen

\* stop_logging's first attempt accepts the ack that was readable before
\* its frame was written.
C36_Witness ==
    /\ AckAccepted
    /\ g_call.api = "stop_logging"
    /\ tx_count = 1
    /\ tx_frame = Frame185_1
    /\ ring_at_write = Ack185

\* A second attempt accepts the ack that arrived after the first one timed
\* out.
C36_AckOfEarlierAttempt ==
    /\ AckAccepted
    /\ tx_count = 2
    /\ ring_at_write = LoggerAck

\* An ack that arrived after the write is accepted.
C36_FreshAck == AckAccepted /\ ring_at_write = <<>>

-----------------------------------------------------------------------------
(* The commands that need the NMEA output disabled. *)

\* The frames of the domain commands, by their names PMTK183, PMTK184,
\* PMTK185, PMTK187 and PMTK622.
DomainNames ==
    {<<80, 77, 84, 75, 49, 56, 51>>, <<80, 77, 84, 75, 49, 56, 52>>,
     <<80, 77, 84, 75, 49, 56, 53>>, <<80, 77, 84, 75, 49, 56, 55>>,
     <<80, 77, 84, 75, 54, 50, 50>>}

DomainFrame(f) == Len(f) >= 8 /\ SubSeq(f, 2, 8) \in DomainNames

DomainCall ==
    g_call.fn \in {"send_mtk_cmd", "send_mtk_cmd_for_reply", "read_logs"}

\* write_cmd_raw is called in this step.
WriteStep ==
    \/ tx_count' = tx_count + 1
    \/ lox_tx_count' = lox_tx_count + 1

\* C37: every write of a domain command frame happens with
\* disabled_nmea_output true; when the ensure_nmea_output_disabled before
\* it fails, the command returns that error and has written no frame of
\* its own.
C37_DomainWritesAfterNmeaOff ==
    [][/\ (WriteStep /\ DomainFrame(tx_frame')) =>
             disabled_nmea_output /\ disabled_nmea_output'
       /\ (DomainCall /\ phase = "nmea" /\ g_pc' = "done") =>
             /\ g_res'.tag = "Err"
             /\ g_res' = op_res'
             /\ ~DomainFrame(tx_frame')
             /\ lox_tx_count' = 0
       /\ (DomainCall /\ phase = "nmea" /\ op_res'.tag = "Err"
              /\ g_pc' \notin {"read", "delay", "write"}) =>
             g_pc' = "done"
      ]_vars

\* read_logs returned the timeout of PMTK314's last read and wrote no
\* PMTK622.
C37_Witness ==
    /\ g_call.fn = "read_logs"
    /\ g_pc = "done"
    /\ g_res = GErr("ReadTimeout")
    /\ ~disabled_nmea_output
    /\ tx_count > 0
    /\ tx_frame # <<>>
    /\ ~DomainFrame(tx_frame)
    /\ lox_tx_count = 0

\* PMTK622 was written after PMTK314 was acknowledged in this call.
C37_WrittenAfterDisabling ==
    /\ g_call.fn = "read_logs"
    /\ ~already_disabled_nmea_output
    /\ disabled_nmea_output
    /\ lox_tx_count = 1
    /\ DomainFrame(tx_frame)

-----------------------------------------------------------------------------
(* The return of read_cmd_raw. *)

\* C38 as stated: every call of read_cmd_raw eventually returns, whatever
\* the device does, also when it keeps committing bytes without "\r\n".
C38_ReadReturns == (r_pc = "reading") ~> (r_pc = "done")

\* C38: every call of read_cmd_raw returns if the device stops committing
\* bytes that close no frame: then a frame closes, or the polls that find
\* nothing readable add up to more than MAX_READ_CMD_US.
C38_ReadReturnsWhenDeviceStops ==
    (<>[][~DevChatter]_vars) => ((r_pc = "reading") ~> (r_pc = "done"))

\* The call timed out although the device had committed bytes during it.
C38_Witness ==
    /\ r_pc = "done"
    /\ r_res = GErr("ReadTimeout")
    /\ cmd # <<>>
    /\ delayed = MAX_READ_CMD_US + 1

-----------------------------------------------------------------------------
(* The return of flush_rx_queue. *)

InFlush == g_pc = "flush"
AtReadyCheck == phase = "ready" /\ g_pc = "write"

\* C39: flush_rx_queue always terminates, also when nothing is readable at
\* the call and the device sends nothing more, and leaves the ring without
\* the bytes that were readable; so wait_for_boot reaches its PMTK605
\* readiness check after both boot indicators were seen even if the
\* device stays silent.
C39_FlushTerminates == InFlush ~> (AtReadyCheck /\ ring = <<>>)

\* What holds: flush_rx_queue returns once something is readable, and
\* then nothing is.
C39_FlushReturnsWhenReadable ==
    (InFlush /\ ring # <<>>) ~> (AtReadyCheck /\ ring = <<>>)

\* flush_rx_queue is called with nothing readable and nothing on its way.
C39_FlushOnEmptyRing ==
    /\ InFlush
    /\ seen_boot_sys_msg
    /\ seen_mtkgps
    /\ ring = <<>>
    /\ dev_pending = <<>>

-----------------------------------------------------------------------------
(* What a call of read_cmd_raw leaves in the ring. *)

\* The bytes the device has committed, in the order of their arrival.
Committed == SubSeq(dev_frame, 1, dev_pos) \o junk

FrameClosed == r_pc = "done" /\ r_res # GErr("ReadTimeout")

\* C40: a read_cmd_raw call that closes a frame releases from the ring
\* exactly the bytes up to and including the closing '\n'; the bytes that
\* arrived after it, also in the same grant, stay in the ring unchanged and
\* in order and are the first bytes the next call consumes, so that two
\* frames delivered back to back are returned by two successive calls.
C40_FrameReleasedAlone ==
    /\ seen \o ring = Committed
    /\ FrameClosed =>
          \/ /\ seen = dev_frame
             /\ r_res = map_err_Parse(parse(dev_frame))
          \/ /\ seen = dev_frame \o Trailer
             /\ r_res = map_err_Parse(parse(Trailer))

\* The second call has returned the second frame, with no poll that found
\* the ring empty.
C40_Witness ==
    /\ FrameClosed
    /\ seen = dev_frame \o Trailer
    /\ r_res = [tag |-> "Ok", name |-> <<65>>, fields |-> <<>>]
    /\ ring = <<>>
    /\ empty_polls = 0

\* The first call has returned the first frame; the second frame, granted
\* with it, is in the ring.
C40_SecondFrameLeft ==
    /\ FrameClosed
    /\ seen = dev_frame
    /\ ring = Trailer
    /\ r_res.tag = "Ok"
    /\ empty_polls = 0

=============================================================================
